---- MODULE Spec2Model ----
(***************************************************************************)
(* The check-out core of vault-plugin-secrets-ad: the handler stack built  *)
(* by NewCheckOutHandler                                                   *)
(*   OverdueWatcher -> ServiceAccountLocker -> PasswordHandler ->          *)
(*   StorageHandler                                                        *)
(* run by concurrent request goroutines and by the watcher goroutines that *)
(* OverdueWatcher.CheckOut starts.                                         *)
(*                                                                         *)
(* Granularity.  Every call on a shared object (storage, the remote        *)
(* directory, the sync.Map of locks, the renewalChans map, a channel) is   *)
(* one step.  RWMutex.Lock() is taken in the same step as the first call   *)
(* made under it and Unlock() in the same step as the last one: acquiring  *)
(* commutes to the right and releasing to the left of every step of the    *)
(* other goroutines.                                                       *)
(*                                                                         *)
(* Failures.  In the handler stack the call to the directory                *)
(* (client.UpdatePassword) may fail; the calls to storage succeed.  In the  *)
(* write-ahead-log specification further down every call may fail.         *)
(*                                                                         *)
(* Time.  Every time.Time of the program (CheckOut.Due, a timer's          *)
(* deadline, a due time travelling through a renewal channel) is kept as   *)
(* the time that remains until it; Tick lets one unit pass.                *)
(*                                                                         *)
(* Specifications.  Spec is the stack under concurrent requests whose      *)
(* arguments are all present; SpecValidate puts the InputValidator in      *)
(* front of it and lets arguments be missing; SpecBoot is the pass of      *)
(* NewCheckOutHandler over the stored sets at process start; SpecWAL is    *)
(* the PasswordHandler with a write-ahead log and its periodic replay.     *)
(* SpecLib is the library of sets (path_checkout_sets.go) under concurrent *)
(* writes, deletes and check-outs, SpecLend its check-out and check-in     *)
(* paths under concurrent borrowers, SpecAdmin one administrator writing   *)
(* sets with every field, SpecUnlocked the set check-out as it was before  *)
(* the account locks.  SpecRoot is the rotation of the root credential     *)
(* (path_rotate_root_creds.go) under concurrent requests whose contexts    *)
(* may be cancelled.                                                       *)
(***************************************************************************)
EXTENDS Integers, FiniteSets, Sequences, TLC

\* Bounds of the model.
MaxOps == 2
MaxPeriod == 1
MaxWALOps == 4
MaxSetOps == 2
MaxNames == 2
MaxTTL == 2
NumLocks == 2
MaxRotations == 2
MaxLeaseOps == 3

\* time.Minute, the watcher's retry interval, in the model's time unit.
RetryDelay == 1

Accounts == {"svc"}
ProcIds == {1, 2}

\* The request goroutines, and the goroutines started by `go w.startWatching`.
Procs == {<<"p", i>> : i \in ProcIds}
Watchers == {<<"w", i>> : i \in 1..MaxOps}
Threads == Procs \cup Watchers
NoThread == <<"none", 0>>

\* A nil *CheckOut / a storage entry that does not exist.
Nil == [borrower |-> NoThread, due |-> 0]
\* No entry under "password/<name>".
NoPassword == 0
InitialPassword == NoPassword + 1

\* The ids framework.PutWAL hands out, a WAL entry, and the frame of a
\* reconciliation pass that is not running.
WalIds == 1..MaxWALOps
NoWalId == 0
NoEntry == [id |-> NoWalId, st |-> "none", acct |-> "none", pw |-> NoPassword,
            old |-> NoPassword]
NoRetry == [walIDs |-> << >>, walEntry |-> NoEntry, listed |-> {}, alone |-> FALSE]

\* The keys of storage a set can be under: libraryPrefix is the one storeSet
\* writes, reserveStoragePrefix the one NewCheckOutHandler lists.
libraryPrefix == "library/"
reserveStoragePrefix == "reserve/"
SetNames == {"set"}
SetKeys == {libraryPrefix, reserveStoragePrefix} \X SetNames
NoBoot == [pc |-> "returned", names |-> {}, accts |-> {}, acct |-> "svc",
           watch |-> NoThread]

\* The names a caller can pass: an account's, or the empty string.
Names == Accounts \cup {""}
\* The arguments of a call that may be nil, and a call with none of them nil.
Args == [ctx : BOOLEAN, storage : BOOLEAN, checkOut : BOOLEAN]
AllPresent == [ctx |-> TRUE, storage |-> TRUE, checkOut |-> TRUE]
\* What a "checkout/<name>" entry written from a nil *CheckOut decodes to.
NullCheckOut == [borrower |-> <<"null", 0>>, due |-> 0]

\* The library: the service accounts sets are made of (in the order
\* sort.Strings gives them), the names of sets, and the lists of names a
\* request can carry.
MemberOrder == <<"x", "y">>
Members == {MemberOrder[i] : i \in 1..Len(MemberOrder)}
LibNames == {"s", "t"}
NameLists ==
    {l \in UNION {[1..n -> Members] : n \in 0..MaxNames} :
        \A i, j \in DOMAIN l : l[i] = l[j] => i = j}
\* The ttl and max_ttl a request can carry, and the schema's default of both.
TTLs == 0..MaxTTL
\* The ttl a check-out request can carry: the field is a number of seconds.
RequestedTTLs == (0 - 1)..MaxTTL
DefaultTTL == 24 * 60 * 60
\* req.EntityID and req.ClientToken of a request.
NoIdentity == [EntityID |-> "", ClientToken |-> ""]
Identities ==
    {NoIdentity, [EntityID |-> "e1", ClientToken |-> "t1"],
     [EntityID |-> "e1", ClientToken |-> "t2"], [EntityID |-> "", ClientToken |-> "t2"]}
\* A CheckOut of an available account, and the one operationSetCheckOut
\* prepares for a request.
Available == [IsAvailable |-> TRUE, BorrowerEntityID |-> "", BorrowerClientToken |-> ""]
newCheckOut(id) ==
    [IsAvailable |-> FALSE, BorrowerEntityID |-> id.EntityID,
     BorrowerClientToken |-> id.ClientToken]
\* The bind password the directory starts with, the attempts of
\* rollBackPassword, and the frame of a request goroutine that is not inside
\* rotate-root: `err` is the attempt whose error rollBackPassword holds,
\* `calls` the remote calls it has made, `fatal` whether this goroutine has
\* ever reported a rollback that failed.
InitialRoot == 0
AttemptsAndOneMore == 10 + 1
Attempts == 10
NoErr == 0 - 1
NoRotation ==
    [pc |-> "idle", oldPassword |-> 0, newPassword |-> 0, i |-> 0, err |-> NoErr,
     done |-> FALSE, fired |-> FALSE, calls |-> 0, rollbackErr |-> "none",
     resp |-> "none", fatal |-> FALSE]

\* The fields of a write request, and the frame of a request goroutine that
\* is not inside a path of the library.
Fields == {"service_account_names", "ttl", "max_ttl", "disable_check_in_enforcement"}
NoSet == [ServiceAccountNames |-> << >>, TTL |-> 0, MaxTTL |-> 0,
          DisableCheckInEnforcement |-> FALSE]
NoReq == [pc |-> "idle", kind |-> "none", name |-> "s", names |-> << >>, sent |-> {},
          ttl |-> 0, maxTTL |-> 0, disable |-> FALSE, id |-> NoIdentity,
          override |-> FALSE, set |-> NoSet, todo |-> << >>, i |-> 1,
          managed |-> FALSE, failed |-> FALSE, held |-> {}, cant |-> FALSE,
          checkIns |-> << >>, resp |-> "none", alone |-> FALSE]

Kinds == {"CheckOut", "RenewCheckOut", "CheckIn", "Delete", "Status"}
NoOp == [kind |-> "none", acct |-> "svc", due |-> 0]

VARIABLES
    forLeader,      \* NewCheckOutHandler's forLeader argument
    checkout,       \* storage: "checkout/<name>" -> CheckOut
    password,       \* storage: "password/<name>" -> password
    remote,         \* the directory's password of each account
    locks,          \* ServiceAccountLocker.locks: name -> lock (named by its creator)
    lockHeld,       \* each lock's writer
    renewalChans,   \* OverdueWatcher.renewalChans: name -> channel (named by its watcher)
    chClosed,       \* each renewal channel: closed
    chBuf,          \* each renewal channel: its buffer of capacity 1 (-1: empty)
    timer,          \* each watcher's lendingPeriodTimer: time left until it fires
    pc,             \* each goroutine's position
    op,             \* each goroutine's call: kind, serviceAccountName, checkOut.Due
    lk,             \* each goroutine's `lock` local
    ch,             \* each goroutine's `renewalChan` local in stopWatching / RenewCheckOut
    npw,            \* each goroutine's `newPassword` local
    res,            \* each request goroutine's last returned error
    got,            \* each request goroutine's last *CheckOut returned by Status
    rotated,        \* history: what PasswordHandler.CheckIn has done so far in this call
    opsLeft,        \* requests still to come
    nSpawned,       \* watcher goroutines started so far
    lent,           \* history: the requests whose CheckOut succeeded since the last check-in
    wal,            \* storage: the framework's WAL, the entries ever put
    walID,          \* each goroutine's `walID` local in PasswordHandler.CheckIn
    retry,          \* retryFailedPasswordUpdates' frame: walIDs still to visit, walEntry,
                    \* and as history the entries it listed and whether it ran alone
    sets,           \* storage: the stored sets, key -> ServiceAccountNames
    boot,           \* NewCheckOutHandler's frame: position, reserveNames and
                    \* ServiceAccountNames still to visit, the watcher it is inside
    startup,        \* history: the CheckOut records at process start
    args,           \* each request goroutine's arguments: which of ctx, storage and
                    \* checkOut are not nil (serviceAccountName is op.acct)
    latestStorage,  \* OverdueWatcher.latestStorage: it is not nil
    library,        \* storage: "library/<setName>" -> {librarySet}
    checkOuts,      \* storage as checkOutHandler keeps it: name -> {CheckOut}
    stored,         \* storage: "password/<name>" exists
    checkOutLocks,  \* backend.checkOutLocks: each lock's holder
    lockIndex,      \* locksutil.LockForKey: name -> index of its lock
    req,            \* each request goroutine's frame inside a path of the library
    setOps,         \* requests to the library still to come
    engineConf,     \* storage: the bind password of the stored configuration
    rootPassword,   \* the directory: the password of the bind DN
    rotateRootLock, \* backend.rotateRootLock
    rotation,       \* each request goroutine's frame inside rotate-root
    rootOps         \* requests to rotate-root still to come

vars == <<forLeader, checkout, password, remote, locks, lockHeld, renewalChans,
          chClosed, chBuf, timer, pc, op, lk, ch, npw, res, got, rotated, opsLeft,
          nSpawned, lent, wal, walID, retry, sets, boot, startup, args,
          latestStorage, library, checkOuts, stored, checkOutLocks, lockIndex,
          req, setOps, engineConf, rootPassword, rotateRootLock, rotation,
          rootOps>>

storageVars == <<checkout, password>>
lockVars == <<locks, lockHeld>>
watchVars == <<renewalChans, chClosed, chBuf, timer, nSpawned>>
walVars == <<wal, walID, retry>>
bootVars == <<sets, boot, startup>>
inputVars == <<args, latestStorage>>
libVars == <<library, checkOuts, stored, checkOutLocks, lockIndex, req, setOps>>
rootVars == <<engineConf, rootPassword, rotateRootLock, rotation, rootOps>>
stackVars == <<forLeader, checkout, password, remote, locks, lockHeld, renewalChans,
               chClosed, chBuf, timer, pc, op, lk, ch, npw, res, got, rotated,
               opsLeft, nSpawned, lent, wal, walID, retry, sets, boot, startup,
               args, latestStorage>>

Empty == 0 - 1

InitMemory ==
    /\ password = [a \in Accounts |-> NoPassword]
    /\ remote = [a \in Accounts |-> InitialPassword]
    /\ locks = [a \in Names |-> NoThread]
    /\ lockHeld = [a \in Names |-> [t \in Threads |-> NoThread]]
    /\ renewalChans = [a \in Accounts |-> NoThread]
    /\ chClosed = [w \in Watchers |-> FALSE]
    /\ chBuf = [w \in Watchers |-> Empty]
    /\ timer = [w \in Watchers |-> 0]
    /\ pc = [t \in Threads |-> IF t \in Procs THEN "idle" ELSE "unborn"]
    /\ op = [t \in Threads |-> NoOp]
    /\ lk = [t \in Threads |-> NoThread]
    /\ ch = [t \in Threads |-> NoThread]
    /\ npw = [t \in Threads |-> NoPassword]
    /\ res = [p \in Procs |-> "none"]
    /\ got = [p \in Procs |-> Nil]
    /\ rotated = [t \in Threads |-> {}]
    /\ nSpawned = 0
    /\ lent = [a \in Accounts |-> {}]
    /\ wal = {}
    /\ walID = [p \in Procs |-> NoWalId]
    /\ retry = NoRetry
    /\ args = [p \in Procs |-> AllPresent]
    /\ latestStorage = TRUE
    /\ checkOutLocks = [l \in 0..(NumLocks - 1) |-> NoThread]
    /\ req = [p \in Procs |-> NoReq]
    /\ rotateRootLock = 0
    /\ rotation = [p \in Procs |-> NoRotation]

\* A storage without sets, and no request to the library to come.
NoSets ==
    /\ library = [n \in LibNames |-> {}]
    /\ checkOuts = [a \in Members |-> {}]
    /\ stored = [a \in Members |-> FALSE]
NoLibrary ==
    /\ NoSets
    /\ lockIndex = [a \in Members |-> 0]
    /\ setOps = 0
\* No configuration, and no request to rotate-root.
NoRoot ==
    /\ engineConf = {}
    /\ rootPassword = InitialRoot
    /\ rootOps = 0

\* An empty storage, and a NewCheckOutHandler that has returned.
InitState ==
    /\ checkout = [a \in Accounts |-> Nil]
    /\ sets = [k \in SetKeys |-> {}]
    /\ boot = NoBoot
    /\ startup = checkout
    /\ InitMemory
    /\ NoLibrary
    /\ NoRoot

Init ==
    /\ forLeader \in BOOLEAN
    /\ opsLeft = MaxOps
    /\ InitState

----------------------------------------------------------------------------
\* Helpers.

Dec(n) == IF n > 0 THEN n - 1 ELSE n

\* util.GeneratePassword: a random string, modelled as a password that is
\* recorded nowhere at the moment it is generated.
PasswordsInUse ==
    {password[a] : a \in Accounts} \cup {remote[a] : a \in Accounts}
        \cup {npw[t] : t \in Threads} \cup {NoPassword}
        \cup {e.pw : e \in wal} \cup {retry.walEntry.pw}
        \cup {e.pw : e \in retry.listed}
GeneratePassword ==
    CHOOSE n \in 1..(Cardinality(PasswordsInUse) + 1) : n \notin PasswordsInUse

\* A lock is free for a writer.
LockFree(a, l) == lockHeld[a][l] = NoThread

\* The goroutine returns from the handler stack: a request goroutine is idle
\* again with the error it got, a watcher stays at `w`.
Return(t, err, w) ==
    /\ pc' = [pc EXCEPT ![t] = IF t \in Procs THEN "idle" ELSE w]
    /\ res' = IF t \in Procs THEN [res EXCEPT ![t] = err] ELSE res
    /\ op' = IF t \in Procs THEN [op EXCEPT ![t] = NoOp] ELSE op
    /\ lk' = [lk EXCEPT ![t] = NoThread]
    /\ ch' = [ch EXCEPT ![t] = NoThread]
    /\ npw' = [npw EXCEPT ![t] = NoPassword]
    /\ rotated' = [rotated EXCEPT ![t] = {}]

\* The goroutine moves on inside its call.
Goto(t, where) ==
    /\ pc' = [pc EXCEPT ![t] = where]
    /\ UNCHANGED <<op, res, lk, ch, npw, rotated>>

\* A panic in any goroutine ends the process, and every goroutine with it.
Panic ==
    /\ pc' = [t \in Threads |-> "panic"]
    /\ UNCHANGED <<op, res, lk, ch, npw, rotated>>

Acquire(t) == lockHeld' = [lockHeld EXCEPT ![op[t].acct][lk[t]] = t]
Release(t) == lockHeld' = [lockHeld EXCEPT ![op[t].acct][lk[t]] = NoThread]

----------------------------------------------------------------------------
\* ServiceAccountLocker.getOrCreateLock.

\* l.locks.Load(serviceAccountName), as the first step of a call.
getOrCreateLockLoad(t, a) ==
    /\ lk' = [lk EXCEPT ![t] = locks[a]]
    /\ pc' = [pc EXCEPT ![t] = IF locks[a] = NoThread THEN "store" ELSE "lock"]

\* l.locks.Store(serviceAccountName, &sync.RWMutex{}).
getOrCreateLockStore(t) ==
    /\ pc[t] = "store"
    /\ locks' = [locks EXCEPT ![op[t].acct] = t]
    /\ lk' = [lk EXCEPT ![t] = t]
    /\ pc' = [pc EXCEPT ![t] = "lock"]
    /\ UNCHANGED <<forLeader, storageVars, remote, lockHeld, watchVars, op, ch, npw,
                   res, got, rotated, opsLeft, lent>>
    /\ UNCHANGED <<walVars, bootVars, inputVars, libVars, rootVars>>

\* A request arrives: the caller's arguments, then the stack down to
\* getOrCreateLock's Load.
Request(p) ==
    /\ pc[p] = "idle"
    /\ opsLeft > 0
    /\ \E k \in Kinds, a \in Accounts, d \in 1..MaxPeriod :
        /\ op' = [op EXCEPT ![p] =
                    [kind |-> k, acct |-> a,
                     due |-> IF k \in {"CheckOut", "RenewCheckOut"} THEN d ELSE 0]]
        /\ getOrCreateLockLoad(p, a)
    /\ opsLeft' = opsLeft - 1
    /\ res' = [res EXCEPT ![p] = "none"]
    /\ UNCHANGED <<forLeader, storageVars, remote, lockVars, watchVars, ch, npw, got,
                   rotated, lent>>
    /\ UNCHANGED <<walVars, bootVars, inputVars, libVars, rootVars>>

----------------------------------------------------------------------------
\* InputValidator, the first object of the stack NewCheckOutHandler returns.

\* validateInputs: the error it returns, "nil" for none.
validateInputs(a, serviceAccountName, checkOutRequired) ==
    IF ~a.ctx THEN "ctx is required"
    ELSE IF ~a.storage THEN "storage is required"
    ELSE IF serviceAccountName = "" THEN "serviceAccountName is required"
    ELSE IF checkOutRequired /\ ~a.checkOut THEN "checkOut is required"
    ELSE "nil"

\* The methods InputValidator defines; RenewCheckOut is the embedded
\* CheckOutHandler's, reached without a call of validateInputs.
Validated == {"CheckOut", "CheckIn", "Status", "Delete"}

\* A watcher is inside w.child.CheckIn, holding storageMutex.RLock().
HoldsStorageMutex(w) == pc[w] \in {"store", "lock", "putpw", "del"}

\* A call of the handler with any arguments: InputValidator's method, then on
\* the leader OverdueWatcher.updateStorage, which waits for storageMutex.Lock()
\* when the storage differs from the last one, then the stack down to
\* getOrCreateLock's Load.
InputValidatorCall(p) ==
    /\ pc[p] = "idle"
    /\ opsLeft > 0
    /\ opsLeft' = opsLeft - 1
    /\ \E k \in Kinds, n \in Names, d \in 1..MaxPeriod, a \in Args :
        LET hasCheckOut == k \in {"CheckOut", "RenewCheckOut"}
            err == IF k \in Validated THEN validateInputs(a, n, k = "CheckOut")
                                      ELSE "nil"
        IN
        /\ hasCheckOut \/ a.checkOut
        /\ IF err # "nil"
           THEN /\ res' = [res EXCEPT ![p] = err]
                /\ UNCHANGED <<op, pc, lk, args, latestStorage>>
           ELSE /\ res' = [res EXCEPT ![p] = "none"]
                /\ op' = [op EXCEPT ![p] =
                            [kind |-> k, acct |-> n, due |-> IF hasCheckOut THEN d ELSE 0]]
                /\ args' = [args EXCEPT ![p] = a]
                /\ IF forLeader /\ a.storage # latestStorage
                   THEN /\ \A w \in Watchers : ~HoldsStorageMutex(w)
                        /\ latestStorage' = a.storage
                   ELSE UNCHANGED latestStorage
                /\ getOrCreateLockLoad(p, n)
    /\ UNCHANGED <<forLeader, storageVars, remote, lockVars, watchVars, ch, npw, got,
                   rotated, lent>>
    /\ UNCHANGED <<walVars, bootVars, libVars, rootVars>>

----------------------------------------------------------------------------
\* StorageHandler: the "checkout/<name>" entry.

\* A *CheckOut in memory is nil or has the borrower (BorrowerEntityID and
\* BorrowerClientToken, strings that json.Marshal keeps as they are), the time
\* due, and `mono`: whether that time.Time carries a monotonic clock reading,
\* as one made from time.Now() does.  The entry in storage is its JSON.

\* An encoding that loses the time due.
StorageEntryJSONWithoutDue(c) ==
    IF c = Nil THEN NullCheckOut ELSE [borrower |-> c.borrower, due |-> 0]

\* logical.StorageEntryJSON(key, checkOut): json.Marshal writes a nil pointer
\* as null and a time.Time in RFC 3339 with nanoseconds, the instant without
\* the monotonic reading.
StorageEntryJSON(c) ==
    IF c = Nil THEN NullCheckOut ELSE [borrower |-> c.borrower, due |-> c.due]

\* entry.DecodeJSON(checkOut) into a new CheckOut: null leaves it zero, and a
\* parsed time has no monotonic reading.
DecodeJSON(e) == [borrower |-> e.borrower, due |-> e.due, mono |-> FALSE]

\* storage.Put(ctx, entry) of StorageHandler.CheckOut / RenewCheckOut.
StoragePutCheckOut(a, c) == checkout' = [checkout EXCEPT ![a] = StorageEntryJSON(c)]

\* A Delete that leaves the entry in storage.
StorageHandlerDeleteKeeps(a) == checkout' = checkout

\* StorageHandler.Delete (and CheckIn, which calls it): storage.Delete of the entry.
StorageHandlerDelete(a) == checkout' = [checkout EXCEPT ![a] = Nil]

\* StorageHandler.Status: the decoded *CheckOut, nil when there is no entry.
StorageHandlerStatus(a) == IF checkout[a] = Nil THEN Nil ELSE DecodeJSON(checkout[a])

\* A test of the entry that never finds one.
NeverCheckedOut(a) == FALSE

\* StorageHandler.CheckOut's test of the entry it read.
CurrentlyCheckedOut(a) == a \in Accounts /\ checkout[a] # Nil

\* The *CheckOut a request passes down, its Due with or without a monotonic
\* reading.
NewCheckOut(t, m) ==
    IF args[t].checkOut THEN [borrower |-> t, due |-> op[t].due, mono |-> m] ELSE Nil

----------------------------------------------------------------------------
\* CheckOut: OverdueWatcher -> ServiceAccountLocker -> PasswordHandler -> StorageHandler.

\* lock.Lock(), then StorageHandler.CheckOut's storage.Get and its test.
CheckOutGet(t) ==
    /\ pc[t] = "lock"
    /\ op[t].kind = "CheckOut"
    /\ LockFree(op[t].acct, lk[t])
    /\ IF CurrentlyCheckedOut(op[t].acct)
       THEN /\ Return(t, "ErrCurrentlyCheckedOut", "none")
            /\ UNCHANGED lockHeld
       ELSE /\ Goto(t, "put")
            /\ Acquire(t)
    /\ UNCHANGED <<forLeader, storageVars, remote, locks, watchVars, got, opsLeft, lent>>
    /\ UNCHANGED <<walVars, bootVars, inputVars, libVars, rootVars>>

\* StorageHandler.CheckOut's storage.Put, lock.Unlock(), and on the leader
\* OverdueWatcher.CheckOut's `go w.startWatching(serviceAccountName, checkOut.Due)`.
CheckOutPut(t) ==
    LET a == op[t].acct
        w == <<"w", nSpawned + 1>>
    IN
    /\ pc[t] = "put"
    /\ op[t].kind = "CheckOut"
    /\ Release(t)
    /\ \E m \in BOOLEAN : StoragePutCheckOut(a, NewCheckOut(t, m))
    /\ lent' = [lent EXCEPT ![a] = @ \cup {t}]
    /\ res' = [res EXCEPT ![t] = "nil"]
    /\ IF forLeader
       THEN /\ pc' = [pc EXCEPT ![t] = "idle", ![w] = "register"]
            /\ op' = [op EXCEPT ![t] = NoOp,
                                ![w] = [kind |-> "Watch", acct |-> a, due |-> 0]]
            /\ timer' = [timer EXCEPT ![w] = op[t].due]
            /\ nSpawned' = nSpawned + 1
       ELSE /\ pc' = [pc EXCEPT ![t] = "idle"]
            /\ op' = [op EXCEPT ![t] = NoOp]
            /\ UNCHANGED <<timer, nSpawned>>
    /\ lk' = [lk EXCEPT ![t] = NoThread]
    /\ UNCHANGED <<ch, npw, rotated>>
    /\ UNCHANGED <<forLeader, password, remote, locks, renewalChans, chClosed, chBuf,
                   got, opsLeft>>
    /\ UNCHANGED <<walVars, bootVars, inputVars, libVars, rootVars>>

----------------------------------------------------------------------------
\* RenewCheckOut.

\* A RenewCheckOut that stores the new CheckOut whether or not there is one.
RenewGetUntested(t) ==
    /\ pc[t] = "lock"
    /\ op[t].kind = "RenewCheckOut"
    /\ LockFree(op[t].acct, lk[t])
    /\ Goto(t, "put")
    /\ Acquire(t)
    /\ UNCHANGED <<forLeader, storageVars, remote, locks, watchVars, got, opsLeft, lent>>
    /\ UNCHANGED <<walVars, bootVars, inputVars, libVars, rootVars>>

\* lock.Lock(), then StorageHandler.RenewCheckOut's storage.Get and its test.
\* A method called on a nil logical.Storage panics.
RenewGet(t) ==
    /\ pc[t] = "lock"
    /\ op[t].kind = "RenewCheckOut"
    /\ LockFree(op[t].acct, lk[t])
    /\ IF ~args[t].storage
       THEN /\ Panic
            /\ UNCHANGED lockHeld
       ELSE IF ~CurrentlyCheckedOut(op[t].acct)
       THEN /\ Return(t, "ErrNotCurrentlyCheckedOut", "none")
            /\ UNCHANGED lockHeld
       ELSE /\ Goto(t, "put")
            /\ Acquire(t)
    /\ UNCHANGED <<forLeader, storageVars, remote, locks, watchVars, got, opsLeft, lent>>
    /\ UNCHANGED <<walVars, bootVars, inputVars, libVars, rootVars>>

\* StorageHandler.RenewCheckOut's storage.Put and lock.Unlock().
RenewPut(t) ==
    /\ pc[t] = "put"
    /\ op[t].kind = "RenewCheckOut"
    /\ Release(t)
    /\ \E m \in BOOLEAN : StoragePutCheckOut(op[t].acct, NewCheckOut(t, m))
    /\ IF forLeader
       THEN Goto(t, "renewRead")
       ELSE Return(t, "nil", "none")
    /\ UNCHANGED <<forLeader, password, remote, locks, watchVars, got, opsLeft, lent>>
    /\ UNCHANGED <<walVars, bootVars, inputVars, libVars, rootVars>>

\* OverdueWatcher.RenewCheckOut: renewalChan, ok := w.renewalChans[serviceAccountName].
RenewRead(t) ==
    /\ pc[t] = "renewRead"
    /\ IF renewalChans[op[t].acct] = NoThread
       THEN Return(t, "missing renewal channel", "none")
       ELSE /\ pc' = [pc EXCEPT ![t] = "renewSend"]
            /\ ch' = [ch EXCEPT ![t] = renewalChans[op[t].acct]]
            /\ UNCHANGED <<op, res, lk, npw, rotated>>
    /\ UNCHANGED <<forLeader, storageVars, remote, lockVars, watchVars, got, opsLeft, lent>>
    /\ UNCHANGED <<walVars, bootVars, inputVars, libVars, rootVars>>

\* OverdueWatcher.RenewCheckOut: renewalChan <- checkOut.Due.  Evaluating
\* checkOut.Due panics when checkOut is nil; the send blocks while the buffer
\* is full and panics on a closed channel.
RenewSend(t) ==
    /\ pc[t] = "renewSend"
    /\ ~args[t].checkOut \/ chClosed[ch[t]] \/ chBuf[ch[t]] = Empty
    /\ IF ~args[t].checkOut \/ chClosed[ch[t]]
       THEN /\ Panic
            /\ UNCHANGED chBuf
       ELSE /\ chBuf' = [chBuf EXCEPT ![ch[t]] = op[t].due]
            /\ Return(t, "nil", "none")
    /\ UNCHANGED <<forLeader, storageVars, remote, lockVars, renewalChans, chClosed,
                   timer, nSpawned, got, opsLeft, lent>>
    /\ UNCHANGED <<walVars, bootVars, inputVars, libVars, rootVars>>

----------------------------------------------------------------------------
\* CheckIn, by a request or by a watcher whose timer fired.

\* A startWatching that returns after a failed CheckIn instead of arming a new timer.
CheckInFailedEndsWatching(t, err) ==
    /\ Return(t, err, "done")
    /\ timer' = IF t \in Watchers THEN [timer EXCEPT ![t] = 0] ELSE timer

\* What a goroutine does after a failed CheckIn: a request returns the error;
\* startWatching logs it and sets lendingPeriodTimer = time.NewTimer(time.Minute).
CheckInFailed(t, err) ==
    /\ Return(t, err, "select")
    /\ timer' = IF t \in Watchers THEN [timer EXCEPT ![t] = RetryDelay] ELSE timer

\* A PasswordHandler.CheckIn that goes on after a failed h.client.UpdatePassword.
PasswordHandlerCheckInUpdateIgnoringError(t) ==
    /\ pc[t] = "lock"
    /\ op[t].kind \in {"CheckIn", "Watch"}
    /\ forLeader
    /\ LockFree(op[t].acct, lk[t])
    /\ \E ok \in BOOLEAN :
        /\ remote' = IF ok THEN [remote EXCEPT ![op[t].acct] = GeneratePassword]
                           ELSE remote
        /\ rotated' = [rotated EXCEPT ![t] = IF ok THEN {"remote"} ELSE {}]
    /\ npw' = [npw EXCEPT ![t] = GeneratePassword]
    /\ pc' = [pc EXCEPT ![t] = "putpw"]
    /\ Acquire(t)
    /\ UNCHANGED <<op, res, lk, ch, timer>>
    /\ UNCHANGED <<forLeader, storageVars, locks, renewalChans, chClosed, chBuf,
                   nSpawned, got, opsLeft, lent>>
    /\ UNCHANGED <<walVars, bootVars, inputVars, libVars, rootVars>>

\* On the leader: lock.Lock(), then PasswordHandler.CheckIn's readConfig,
\* util.GeneratePassword and h.client.UpdatePassword, which may fail.  A
\* watcher passes w.latestStorage: readConfig on a nil storage panics.
PasswordHandlerCheckInUpdate(t) ==
    /\ pc[t] = "lock"
    /\ op[t].kind \in {"CheckIn", "Watch"}
    /\ forLeader
    /\ LockFree(op[t].acct, lk[t])
    /\ \E ok \in BOOLEAN :
        IF t \in Watchers /\ ~latestStorage
        THEN /\ Panic
             /\ UNCHANGED <<remote, lockHeld, timer>>
        ELSE IF ok
        THEN /\ remote' = [remote EXCEPT ![op[t].acct] = GeneratePassword]
             /\ npw' = [npw EXCEPT ![t] = GeneratePassword]
             /\ rotated' = [rotated EXCEPT ![t] = {"remote"}]
             /\ pc' = [pc EXCEPT ![t] = "putpw"]
             /\ Acquire(t)
             /\ UNCHANGED <<op, res, lk, ch, timer>>
        ELSE /\ CheckInFailed(t, "remote error")
             /\ UNCHANGED <<remote, lockHeld>>
    /\ UNCHANGED <<forLeader, storageVars, locks, renewalChans, chClosed, chBuf,
                   nSpawned, got, opsLeft, lent>>
    /\ UNCHANGED <<walVars, bootVars, inputVars, libVars, rootVars>>

\* PasswordHandler.CheckIn's storage.Put of "password/<name>".
PasswordHandlerCheckInPut(t) ==
    /\ pc[t] = "putpw"
    /\ password' = [password EXCEPT ![op[t].acct] = npw[t]]
    /\ pc' = [pc EXCEPT ![t] = "del"]
    /\ rotated' = [rotated EXCEPT ![t] = @ \cup {"stored"}]
    /\ UNCHANGED <<op, res, lk, ch, npw>>
    /\ UNCHANGED <<forLeader, checkout, remote, lockVars, watchVars, got, opsLeft, lent>>
    /\ UNCHANGED <<walVars, bootVars, inputVars, libVars, rootVars>>

\* PasswordHandler.Delete's storage.Delete of "password/<name>", after lock.Lock().
PasswordHandlerDelete(t) ==
    /\ pc[t] = "lock"
    /\ op[t].kind = "Delete"
    /\ forLeader
    /\ LockFree(op[t].acct, lk[t])
    /\ password' = [password EXCEPT ![op[t].acct] = NoPassword]
    /\ Goto(t, "del")
    /\ Acquire(t)
    /\ UNCHANGED <<forLeader, checkout, remote, locks, watchVars, got, opsLeft, lent>>
    /\ UNCHANGED <<walVars, bootVars, inputVars, libVars, rootVars>>

\* On the leader: StorageHandler.CheckIn / Delete, the last call under the
\* lock, then lock.Unlock(); OverdueWatcher goes on to stopWatching.
StorageHandlerCheckIn(t) ==
    /\ pc[t] = "del"
    /\ Release(t)
    /\ StorageHandlerDelete(op[t].acct)
    /\ lent' = [lent EXCEPT ![op[t].acct] = {}]
    /\ pc' = [pc EXCEPT ![t] = "stopRead"]
    /\ npw' = [npw EXCEPT ![t] = NoPassword]
    /\ rotated' = [rotated EXCEPT ![t] = {}]
    /\ UNCHANGED <<op, res, lk, ch, timer>>
    /\ UNCHANGED <<forLeader, password, remote, locks, renewalChans, chClosed, chBuf,
                   nSpawned, got, opsLeft>>
    /\ UNCHANGED <<walVars, bootVars, inputVars, libVars, rootVars>>

\* On a follower the stack is ServiceAccountLocker -> StorageHandler: CheckIn
\* and Delete are lock.Lock(), StorageHandler.Delete, lock.Unlock().
FollowerCheckIn(t) ==
    /\ pc[t] = "lock"
    /\ op[t].kind \in {"CheckIn", "Delete"}
    /\ ~forLeader
    /\ LockFree(op[t].acct, lk[t])
    /\ StorageHandlerDelete(op[t].acct)
    /\ lent' = [lent EXCEPT ![op[t].acct] = {}]
    /\ Return(t, "nil", "none")
    /\ UNCHANGED <<forLeader, password, remote, lockVars, watchVars, got, opsLeft>>
    /\ UNCHANGED <<walVars, bootVars, inputVars, libVars, rootVars>>

\* Status: lock.RLock(), StorageHandler.Status, lock.RUnlock().
Status(t) ==
    /\ pc[t] = "lock"
    /\ op[t].kind = "Status"
    /\ LockFree(op[t].acct, lk[t])
    /\ got' = [got EXCEPT ![t] = StorageHandlerStatus(op[t].acct)]
    /\ Return(t, "nil", "none")
    /\ UNCHANGED <<forLeader, storageVars, remote, lockVars, watchVars, opsLeft, lent>>
    /\ UNCHANGED <<walVars, bootVars, inputVars, libVars, rootVars>>

----------------------------------------------------------------------------
\* OverdueWatcher.stopWatching.

\* renewalChan, ok := w.renewalChans[serviceAccountName]; if !ok { return }
stopWatchingRead(t) ==
    /\ pc[t] = "stopRead"
    /\ IF renewalChans[op[t].acct] = NoThread
       THEN Return(t, "nil", "done")
       ELSE /\ pc' = [pc EXCEPT ![t] = "stopClose"]
            /\ ch' = [ch EXCEPT ![t] = renewalChans[op[t].acct]]
            /\ UNCHANGED <<op, res, lk, npw, rotated>>
    /\ UNCHANGED <<forLeader, storageVars, remote, lockVars, watchVars, got, opsLeft, lent>>
    /\ UNCHANGED <<walVars, bootVars, inputVars, libVars, rootVars>>

\* close(renewalChan), which panics on a closed channel.
stopWatchingClose(t) ==
    /\ pc[t] = "stopClose"
    /\ IF chClosed[ch[t]]
       THEN /\ Panic
            /\ UNCHANGED chClosed
       ELSE /\ chClosed' = [chClosed EXCEPT ![ch[t]] = TRUE]
            /\ Goto(t, "stopDelete")
    /\ UNCHANGED <<forLeader, storageVars, remote, lockVars, renewalChans, chBuf, timer,
                   nSpawned, got, opsLeft, lent>>
    /\ UNCHANGED <<walVars, bootVars, inputVars, libVars, rootVars>>

\* delete(w.renewalChans, serviceAccountName)
stopWatchingDelete(t) ==
    /\ pc[t] = "stopDelete"
    /\ renewalChans' = [renewalChans EXCEPT ![op[t].acct] = NoThread]
    /\ Return(t, "nil", "done")
    /\ UNCHANGED <<forLeader, storageVars, remote, lockVars, chClosed, chBuf, timer,
                   nSpawned, got, opsLeft, lent>>
    /\ UNCHANGED <<walVars, bootVars, inputVars, libVars, rootVars>>

----------------------------------------------------------------------------
\* OverdueWatcher.startWatching, one goroutine per successful CheckOut.

\* w.renewalChans[serviceAccountName] = renewalChan; the timer is set to due.Sub(time.Now()).
startWatchingRegister(w) ==
    /\ pc[w] = "register"
    /\ renewalChans' = [renewalChans EXCEPT ![op[w].acct] = w]
    /\ Goto(w, "select")
    /\ UNCHANGED <<forLeader, storageVars, remote, lockVars, chClosed, chBuf, timer,
                   nSpawned, got, opsLeft, lent>>
    /\ UNCHANGED <<walVars, bootVars, inputVars, libVars, rootVars>>

\* select, case updatedDue, stillOpen := <-renewalChan with a value in the buffer.
selectRenewal(w) ==
    /\ pc[w] = "select"
    /\ chBuf[w] # Empty
    /\ timer' = [timer EXCEPT ![w] = chBuf[w]]
    /\ chBuf' = [chBuf EXCEPT ![w] = Empty]
    /\ UNCHANGED <<forLeader, storageVars, remote, lockVars, renewalChans, chClosed,
                   nSpawned, pc, op, lk, ch, npw, res, got, rotated, opsLeft, lent>>
    /\ UNCHANGED <<walVars, bootVars, inputVars, libVars, rootVars>>

\* select, case <-renewalChan on the closed, drained channel: return.
selectClosed(w) ==
    /\ pc[w] = "select"
    /\ chBuf[w] = Empty
    /\ chClosed[w]
    /\ Goto(w, "done")
    /\ timer' = [timer EXCEPT ![w] = 0]
    /\ UNCHANGED <<forLeader, storageVars, remote, lockVars, renewalChans, chClosed,
                   chBuf, nSpawned, got, opsLeft, lent>>
    /\ UNCHANGED <<walVars, bootVars, inputVars, libVars, rootVars>>

\* select, case <-lendingPeriodTimer.C: w.child.CheckIn, down to getOrCreateLock's
\* Load.  Go's select picks among the ready cases at random: this step is
\* enabled beside selectRenewal and selectClosed.
selectTimer(w) ==
    /\ pc[w] = "select"
    /\ timer[w] = 0
    /\ getOrCreateLockLoad(w, op[w].acct)
    /\ UNCHANGED <<forLeader, storageVars, remote, lockVars, watchVars, op, ch, npw,
                   res, got, rotated, opsLeft, lent>>
    /\ UNCHANGED <<walVars, bootVars, inputVars, libVars, rootVars>>

----------------------------------------------------------------------------
\* One unit of time passes: every remaining time shrinks by it.
Tick ==
    /\ checkout' = [a \in Accounts |-> [checkout[a] EXCEPT !.due = Dec(@)]]
    /\ timer' = [w \in Watchers |-> Dec(timer[w])]
    /\ chBuf' = [w \in Watchers |-> Dec(chBuf[w])]
    /\ op' = [t \in Threads |-> [op[t] EXCEPT !.due = Dec(@)]]
    /\ got' = [p \in Procs |-> [got[p] EXCEPT !.due = Dec(@)]]
    /\ UNCHANGED <<forLeader, password, remote, lockVars, renewalChans, chClosed,
                   nSpawned, pc, lk, ch, npw, res, rotated, opsLeft, lent>>
    /\ UNCHANGED <<walVars, bootVars, inputVars, libVars, rootVars>>

Panicked == \E t \in Threads : pc[t] = "panic"

Next ==
    \/ \E p \in Procs : Request(p)
    \/ \E t \in Threads : getOrCreateLockStore(t)
    \/ \E t \in Threads : CheckOutGet(t)
    \/ \E t \in Threads : CheckOutPut(t)
    \/ \E t \in Threads : RenewGet(t)
    \/ \E t \in Threads : RenewPut(t)
    \/ \E t \in Threads : RenewRead(t)
    \/ \E t \in Threads : RenewSend(t)
    \/ \E t \in Threads : PasswordHandlerCheckInUpdate(t)
    \/ \E t \in Threads : PasswordHandlerCheckInPut(t)
    \/ \E t \in Threads : PasswordHandlerDelete(t)
    \/ \E t \in Threads : StorageHandlerCheckIn(t)
    \/ \E t \in Threads : FollowerCheckIn(t)
    \/ \E t \in Threads : Status(t)
    \/ \E t \in Threads : stopWatchingRead(t)
    \/ \E t \in Threads : stopWatchingClose(t)
    \/ \E t \in Threads : stopWatchingDelete(t)
    \/ \E w \in Watchers : startWatchingRegister(w)
    \/ \E w \in Watchers : selectRenewal(w)
    \/ \E w \in Watchers : selectClosed(w)
    \/ \E w \in Watchers : selectTimer(w)
    \/ Tick

Spec == Init /\ [][Next]_vars

\* The same stack, called with arguments that may be missing.
ValidateNext ==
    \/ \E p \in Procs : InputValidatorCall(p)
    \/ \E t \in Threads : getOrCreateLockStore(t)
    \/ \E t \in Threads : CheckOutGet(t)
    \/ \E t \in Threads : CheckOutPut(t)
    \/ \E t \in Threads : RenewGet(t)
    \/ \E t \in Threads : RenewPut(t)
    \/ \E t \in Threads : RenewRead(t)
    \/ \E t \in Threads : RenewSend(t)
    \/ \E t \in Threads : PasswordHandlerCheckInUpdate(t)
    \/ \E t \in Threads : PasswordHandlerCheckInPut(t)
    \/ \E t \in Threads : PasswordHandlerDelete(t)
    \/ \E t \in Threads : StorageHandlerCheckIn(t)
    \/ \E t \in Threads : FollowerCheckIn(t)
    \/ \E t \in Threads : Status(t)
    \/ \E t \in Threads : stopWatchingRead(t)
    \/ \E t \in Threads : stopWatchingClose(t)
    \/ \E t \in Threads : stopWatchingDelete(t)
    \/ \E w \in Watchers : startWatchingRegister(w)
    \/ \E w \in Watchers : selectRenewal(w)
    \/ \E w \in Watchers : selectClosed(w)
    \/ \E w \in Watchers : selectTimer(w)
    \/ Tick

SpecValidate == Init /\ [][ValidateNext]_vars

TypeOK ==
    /\ forLeader \in BOOLEAN
    /\ \A a \in Accounts : checkout[a].due \in 0..MaxPeriod
    /\ \A w \in Watchers : timer[w] \in 0..MaxPeriod /\ chBuf[w] \in Empty..MaxPeriod
    /\ opsLeft \in 0..MaxOps
    /\ nSpawned \in 0..MaxOps
    /\ wal = {}

----------------------------------------------------------------------------
(***************************************************************************)
(* NewCheckOutHandler on the leader: after building the stack it goes      *)
(* through the stored reserves, checks in the accounts whose lending       *)
(* period has expired and starts watching the rest.  It runs in the        *)
(* goroutine that starts the plugin, before any request is served.         *)
(***************************************************************************)
bootstrap == <<"p", 1>>

\* The storage found at process start: a set under each key or none, and for
\* each account no CheckOut, one that is past due, or one due later.
BootInit ==
    /\ forLeader = TRUE
    /\ opsLeft = 0
    /\ sets \in [SetKeys -> {{}, Accounts}]
    /\ checkout \in [Accounts -> {Nil} \cup [borrower : Procs, due : 0..MaxPeriod]]
    /\ startup = checkout
    /\ boot = [NoBoot EXCEPT !.pc = "list"]
    /\ InitMemory
    /\ NoLibrary
    /\ NoRoot

\* logical.Storage.List(prefix): the names of the keys under the prefix.
StorageList(prefix) == {k[2] : k \in {j \in SetKeys : j[1] = prefix /\ sets[j] # {}}}

\* reserveNames, err := storage.List(ctx, reserveStoragePrefix)
BootList ==
    /\ boot.pc = "list"
    /\ boot' = [boot EXCEPT !.pc = "get", !.names = StorageList(reserveStoragePrefix)]
    /\ UNCHANGED <<forLeader, storageVars, remote, lockVars, watchVars, pc, op, lk, ch,
                   npw, res, got, rotated, opsLeft, lent, walVars, sets, startup, inputVars, libVars, rootVars>>

\* for _, reserveName := range reserveNames: storage.Get and DecodeJSON of the
\* next reserve.
BootGet ==
    /\ boot.pc = "get"
    /\ \E n \in boot.names :
        boot' = [boot EXCEPT !.pc = "next", !.names = @ \ {n},
                             !.accts = sets[<<reserveStoragePrefix, n>>]]
    /\ UNCHANGED <<forLeader, storageVars, remote, lockVars, watchVars, pc, op, lk, ch,
                   npw, res, got, rotated, opsLeft, lent, walVars, sets, startup, inputVars, libVars, rootVars>>

\* The outer loop is over: return &InputValidator{handlerStack}, nil.
BootReturn ==
    /\ boot.pc = "get"
    /\ boot.names = {}
    /\ boot' = [boot EXCEPT !.pc = "returned"]
    /\ UNCHANGED <<forLeader, storageVars, remote, lockVars, watchVars, pc, op, lk, ch,
                   npw, res, got, rotated, opsLeft, lent, walVars, sets, startup, inputVars, libVars, rootVars>>

\* for _, serviceAccountName := range reserve.ServiceAccountNames:
\* handlerStack.Status(ctx, storage, serviceAccountName), down to getOrCreateLock's Load.
BootStatus ==
    /\ boot.pc = "next"
    /\ IF boot.accts = {}
       THEN /\ boot' = [boot EXCEPT !.pc = "get"]
            /\ UNCHANGED <<op, lk, pc>>
       ELSE \E a \in boot.accts :
            /\ boot' = [boot EXCEPT !.pc = "status", !.accts = @ \ {a}, !.acct = a]
            /\ op' = [op EXCEPT ![bootstrap] = [kind |-> "Status", acct |-> a, due |-> 0]]
            /\ getOrCreateLockLoad(bootstrap, a)
    /\ UNCHANGED <<forLeader, storageVars, remote, locks, lockHeld, watchVars, ch,
                   npw, res, got, rotated, opsLeft, lent, walVars, sets, startup, inputVars, libVars, rootVars>>

\* Status has returned checkOut: nil, continue; !checkOut.Due.After(time.Now()),
\* handlerStack.CheckIn down to getOrCreateLock's Load; otherwise
\* overdueWatcher.startWatching(serviceAccountName, checkOut.Due), called in
\* this goroutine.
BootDecide ==
    LET checkOut == got[bootstrap]
        a == boot.acct
        w == <<"w", nSpawned + 1>>
    IN
    /\ boot.pc = "status"
    /\ pc[bootstrap] = "idle"
    /\ IF checkOut = Nil
       THEN /\ boot' = [boot EXCEPT !.pc = "next"]
            /\ UNCHANGED <<pc, op, lk, timer, nSpawned>>
       ELSE IF checkOut.due = 0
       THEN /\ boot' = [boot EXCEPT !.pc = "checkin"]
            /\ op' = [op EXCEPT ![bootstrap] = [kind |-> "CheckIn", acct |-> a, due |-> 0]]
            /\ getOrCreateLockLoad(bootstrap, a)
            /\ UNCHANGED <<timer, nSpawned>>
       ELSE /\ boot' = [boot EXCEPT !.pc = "watch", !.watch = w]
            /\ pc' = [pc EXCEPT ![w] = "register"]
            /\ op' = [op EXCEPT ![w] = [kind |-> "Watch", acct |-> a, due |-> 0]]
            /\ timer' = [timer EXCEPT ![w] = checkOut.due]
            /\ nSpawned' = nSpawned + 1
            /\ UNCHANGED lk
    /\ UNCHANGED <<forLeader, storageVars, remote, locks, lockHeld, renewalChans,
                   chClosed, chBuf, ch, npw, res, got, rotated, opsLeft, lent, walVars,
                   sets, startup, inputVars, libVars, rootVars>>

\* handlerStack.CheckIn has returned: an error ends NewCheckOutHandler with
\* return nil, err.
BootCheckedIn ==
    /\ boot.pc = "checkin"
    /\ pc[bootstrap] = "idle"
    /\ boot' = [boot EXCEPT !.pc = IF res[bootstrap] = "nil" THEN "next" ELSE "failed"]
    /\ UNCHANGED <<forLeader, storageVars, remote, lockVars, watchVars, pc, op, lk, ch,
                   npw, res, got, rotated, opsLeft, lent, walVars, sets, startup, inputVars, libVars, rootVars>>

\* startWatching has returned.
BootWatched ==
    /\ boot.pc = "watch"
    /\ pc[boot.watch] = "done"
    /\ boot' = [boot EXCEPT !.pc = "next", !.watch = NoThread]
    /\ UNCHANGED <<forLeader, storageVars, remote, lockVars, watchVars, pc, op, lk, ch,
                   npw, res, got, rotated, opsLeft, lent, walVars, sets, startup, inputVars, libVars, rootVars>>

BootNext ==
    \/ BootList
    \/ BootGet
    \/ BootReturn
    \/ BootStatus
    \/ BootDecide
    \/ BootCheckedIn
    \/ BootWatched
    \/ \E t \in Threads : getOrCreateLockStore(t)
    \/ \E t \in Threads : Status(t)
    \/ \E t \in Threads : PasswordHandlerCheckInUpdate(t)
    \/ \E t \in Threads : PasswordHandlerCheckInPut(t)
    \/ \E t \in Threads : StorageHandlerCheckIn(t)
    \/ \E t \in Threads : stopWatchingRead(t)
    \/ \E t \in Threads : stopWatchingClose(t)
    \/ \E t \in Threads : stopWatchingDelete(t)
    \/ \E w \in Watchers : startWatchingRegister(w)
    \/ \E w \in Watchers : selectTimer(w)
    \/ Tick

SpecBoot == BootInit /\ [][BootNext]_vars

----------------------------------------------------------------------------
(***************************************************************************)
(* The PasswordHandler that keeps a write-ahead log (framework.PutWAL /     *)
(* DeleteWAL) over the StorageHandler, and retryFailedPasswordUpdates, the  *)
(* periodic pass that replays the log.  Requests come from one goroutine,   *)
(* one at a time; the pass runs in a goroutine of its own and takes no      *)
(* lock.  The process may crash between any two steps: storage and the      *)
(* directory keep their state, the goroutines are gone.                     *)
(***************************************************************************)
caller == <<"p", 1>>
periodic == <<"p", 2>>

coreVars == <<forLeader, locks, lockHeld, renewalChans, chClosed, chBuf, timer, lk, ch,
              got, rotated, nSpawned, lent, sets, boot, startup, args, latestStorage,
              library, checkOuts, stored, checkOutLocks, lockIndex, req, setOps,
              engineConf, rootPassword, rotateRootLock, rotation, rootOps>>

WALInit ==
    /\ forLeader = TRUE
    /\ opsLeft = MaxWALOps
    /\ InitState

\* The entries in the log, and framework.GetWAL.
Entries == {e \in wal : e.st = "present"}
Present(i) == \E e \in Entries : e.id = i
GetWAL(i) == CHOOSE e \in Entries : e.id = i

\* framework.DeleteWAL: nothing is left of the entry; the model keeps its id
\* and who removed it.
DeleteWAL(i, by) ==
    {IF e.id = i /\ e.st = "present" THEN [NoEntry EXCEPT !.id = i, !.st = by] ELSE e :
       e \in wal}

\* The id of a new entry: a UUID, one that no entry ever had.
NewWalId == Cardinality(wal) + 1

\* The orders in which framework.ListWAL can return a set of ids.
RECURSIVE Orders(_)
Orders(ids) ==
    IF ids = {} THEN {<< >>}
    ELSE UNION {{<<i>> \o rest : rest \in Orders(ids \ {i})} : i \in ids}

\* The goroutine moves on inside its call.
WALGoto(t, where) ==
    /\ pc' = [pc EXCEPT ![t] = where]
    /\ UNCHANGED <<res, op, npw, walID>>

\* The goroutine returns: its locals are gone.
WALReturn(t, err) ==
    /\ pc' = [pc EXCEPT ![t] = "idle"]
    /\ res' = [res EXCEPT ![t] = err]
    /\ op' = [op EXCEPT ![t] = NoOp]
    /\ npw' = [npw EXCEPT ![t] = NoPassword]
    /\ walID' = [walID EXCEPT ![t] = NoWalId]

\* The process crashes, by itself or by a panic in one of its goroutines.
WALCrashed ==
    /\ pc' = [t \in Threads |-> IF t \in Procs THEN "idle" ELSE pc[t]]
    /\ res' = [p \in Procs |-> "none"]
    /\ op' = [t \in Threads |-> NoOp]
    /\ npw' = [t \in Threads |-> NoPassword]
    /\ walID' = [p \in Procs |-> NoWalId]
    /\ retry' = NoRetry

\* A request takes a step while a pass is in progress: the pass is not alone.
Disturbed == [retry EXCEPT !.alone = FALSE]

\* StorageHandler.CheckOut: storage.Get, the test, storage.Put.
WALCheckOut(p) ==
    /\ p = caller
    /\ pc[p] = "idle"
    /\ opsLeft > 0
    /\ opsLeft' = opsLeft - 1
    /\ \E a \in Accounts :
        IF CurrentlyCheckedOut(a)
        THEN /\ res' = [res EXCEPT ![p] = "ErrCurrentlyCheckedOut"]
             /\ UNCHANGED checkout
        ELSE /\ res' = [res EXCEPT ![p] = "nil"]
             /\ StoragePutCheckOut(a, [borrower |-> p, due |-> MaxPeriod, mono |-> TRUE])
    /\ UNCHANGED <<password, remote, pc, op, npw, coreVars, walVars>>

\* PasswordHandler.CheckIn: readConfig, util.GeneratePassword, framework.PutWAL.
WALCheckInPutWAL(p) ==
    /\ p = caller
    /\ pc[p] = "idle"
    /\ opsLeft > 0
    /\ opsLeft' = opsLeft - 1
    /\ \E a \in Accounts, ok \in BOOLEAN :
        IF ok
        THEN /\ wal' = wal \cup {[id |-> NewWalId, st |-> "present", acct |-> a,
                                    pw |-> GeneratePassword, old |-> remote[a]]}
             /\ walID' = [walID EXCEPT ![p] = NewWalId]
             /\ npw' = [npw EXCEPT ![p] = GeneratePassword]
             /\ op' = [op EXCEPT ![p] = [kind |-> "CheckIn", acct |-> a, due |-> 0]]
             /\ pc' = [pc EXCEPT ![p] = "walUpdate"]
             /\ res' = [res EXCEPT ![p] = "none"]
             /\ retry' = Disturbed
        ELSE /\ res' = [res EXCEPT ![p] = "storage error"]
             /\ UNCHANGED <<wal, walID, npw, op, pc, retry>>
    /\ UNCHANGED <<storageVars, remote, coreVars>>

\* A CheckIn that takes its entry out of the log when the remote update fails.
WALCheckInUpdateDroppingEntry(p) ==
    /\ pc[p] = "walUpdate"
    /\ \E ok \in BOOLEAN :
        IF ok
        THEN /\ remote' = [remote EXCEPT ![op[p].acct] = npw[p]]
             /\ WALGoto(p, "walPut")
             /\ UNCHANGED wal
        ELSE /\ WALReturn(p, "remote error")
             /\ wal' = DeleteWAL(walID[p], "deleted")
             /\ UNCHANGED remote
    /\ retry' = Disturbed
    /\ UNCHANGED <<storageVars, opsLeft, coreVars>>

\* PasswordHandler.CheckIn: h.client.UpdatePassword.
WALCheckInUpdate(p) ==
    /\ pc[p] = "walUpdate"
    /\ \E ok \in BOOLEAN :
        IF ok
        THEN /\ remote' = [remote EXCEPT ![op[p].acct] = npw[p]]
             /\ WALGoto(p, "walPut")
        ELSE /\ WALReturn(p, "remote error")
             /\ UNCHANGED remote
    /\ retry' = Disturbed
    /\ UNCHANGED <<storageVars, wal, opsLeft, coreVars>>

\* PasswordHandler.CheckIn: storage.Put of "password/<name>".
WALCheckInPut(p) ==
    /\ pc[p] = "walPut"
    /\ \E ok \in BOOLEAN :
        IF ok
        THEN /\ password' = [password EXCEPT ![op[p].acct] = npw[p]]
             /\ WALGoto(p, "walDelete")
        ELSE /\ WALReturn(p, "storage error")
             /\ UNCHANGED password
    /\ retry' = Disturbed
    /\ UNCHANGED <<checkout, remote, wal, opsLeft, coreVars>>

\* PasswordHandler.CheckIn: framework.DeleteWAL(ctx, storage, walID).
WALCheckInDeleteWAL(p) ==
    /\ pc[p] = "walDelete"
    /\ \E ok \in BOOLEAN :
        IF ok
        THEN /\ wal' = DeleteWAL(walID[p], "deleted")
             /\ WALGoto(p, "walChild")
        ELSE /\ WALReturn(p, "storage error")
             /\ UNCHANGED wal
    /\ retry' = Disturbed
    /\ UNCHANGED <<storageVars, remote, opsLeft, coreVars>>

\* PasswordHandler.CheckIn: h.child.CheckIn, the StorageHandler's Delete.
WALCheckInChild(p) ==
    /\ pc[p] = "walChild"
    /\ StorageHandlerDelete(op[p].acct)
    /\ WALReturn(p, "nil")
    /\ UNCHANGED <<password, remote, wal, retry, opsLeft, coreVars>>

\* retryFailedPasswordUpdates: readConfig and framework.ListWAL.
retryListWAL(r) ==
    /\ r = periodic
    /\ pc[r] = "idle"
    /\ opsLeft > 0
    /\ opsLeft' = opsLeft - 1
    /\ \E ok \in BOOLEAN :
        IF ok
        THEN /\ \E ids \in Orders({e.id : e \in Entries}) :
                  retry' = [walIDs |-> ids, walEntry |-> NoEntry, listed |-> Entries,
                            alone |-> TRUE]
             /\ pc' = [pc EXCEPT ![r] = "retryGet"]
             /\ res' = [res EXCEPT ![r] = "none"]
        ELSE /\ res' = [res EXCEPT ![r] = "storage error"]
             /\ UNCHANGED <<pc, retry>>
    /\ UNCHANGED <<storageVars, remote, op, npw, wal, walID, coreVars>>

\* The loop's head and framework.GetWAL, which returns a nil entry for an id
\* that is no longer in the log: walEntry.Data then panics.
retryGetWAL(r) ==
    /\ pc[r] = "retryGet"
    /\ IF retry.walIDs = << >>
       THEN /\ WALReturn(r, "nil")
            /\ retry' = NoRetry
       ELSE IF ~Present(Head(retry.walIDs))
       THEN WALCrashed
       ELSE \E ok \in BOOLEAN :
              IF ok
              THEN /\ retry' = [retry EXCEPT !.walEntry = GetWAL(Head(retry.walIDs))]
                   /\ WALGoto(r, "retryUpdate")
              ELSE /\ WALReturn(r, "storage error")
                   /\ retry' = NoRetry
    /\ UNCHANGED <<storageVars, remote, wal, opsLeft, coreVars>>

\* retryFailedPasswordUpdates: client.UpdatePassword with the entry's password.
retryUpdate(r) ==
    /\ pc[r] = "retryUpdate"
    /\ \E ok \in BOOLEAN :
        IF ok
        THEN /\ remote' = [remote EXCEPT ![retry.walEntry.acct] = retry.walEntry.pw]
             /\ WALGoto(r, "retryPut")
             /\ UNCHANGED retry
        ELSE /\ WALReturn(r, "remote error")
             /\ retry' = NoRetry
             /\ UNCHANGED remote
    /\ UNCHANGED <<storageVars, wal, opsLeft, coreVars>>

\* A pass that goes on without storing the password.
retryPutSkipped(r) ==
    /\ pc[r] = "retryPut"
    /\ WALGoto(r, "retryDelete")
    /\ UNCHANGED <<storageVars, remote, wal, retry, opsLeft, coreVars>>

\* retryFailedPasswordUpdates: req.Storage.Put of "password/<name>".
retryPut(r) ==
    /\ pc[r] = "retryPut"
    /\ \E ok \in BOOLEAN :
        IF ok
        THEN /\ password' = [password EXCEPT ![retry.walEntry.acct] = retry.walEntry.pw]
             /\ WALGoto(r, "retryDelete")
             /\ UNCHANGED retry
        ELSE /\ WALReturn(r, "storage error")
             /\ retry' = NoRetry
             /\ UNCHANGED password
    /\ UNCHANGED <<checkout, remote, wal, opsLeft, coreVars>>

\* retryFailedPasswordUpdates: framework.DeleteWAL, then the next walID.
retryDeleteWAL(r) ==
    /\ pc[r] = "retryDelete"
    /\ \E ok \in BOOLEAN :
        IF ok
        THEN /\ wal' = DeleteWAL(Head(retry.walIDs), "replayed")
             /\ retry' = [retry EXCEPT !.walIDs = Tail(@), !.walEntry = NoEntry]
             /\ WALGoto(r, "retryGet")
        ELSE /\ WALReturn(r, "storage error")
             /\ retry' = NoRetry
             /\ UNCHANGED wal
    /\ UNCHANGED <<storageVars, remote, opsLeft, coreVars>>

\* The process crashes while a call is in progress.
WALCrash ==
    /\ \E p \in Procs : pc[p] # "idle"
    /\ WALCrashed
    /\ UNCHANGED <<storageVars, remote, wal, opsLeft, coreVars>>

WALNext ==
    \/ \E p \in Procs : WALCheckOut(p)
    \/ \E p \in Procs : WALCheckInPutWAL(p)
    \/ \E p \in Procs : WALCheckInUpdate(p)
    \/ \E p \in Procs : WALCheckInPut(p)
    \/ \E p \in Procs : WALCheckInDeleteWAL(p)
    \/ \E p \in Procs : WALCheckInChild(p)
    \/ \E r \in Procs : retryListWAL(r)
    \/ \E r \in Procs : retryGetWAL(r)
    \/ \E r \in Procs : retryUpdate(r)
    \/ \E r \in Procs : retryPut(r)
    \/ \E r \in Procs : retryDeleteWAL(r)
    \/ WALCrash

SpecWAL == WALInit /\ [][WALNext]_vars

WALTypeOK ==
    /\ \A e \in wal : e.id \in WalIds /\ e.st \in {"present", "deleted", "replayed"}
    /\ \A p \in Procs : walID[p] \in WalIds \cup {NoWalId}
    /\ opsLeft \in 0..MaxWALOps
    /\ \A e \in retry.listed : e.st = "present" /\ e.acct \in Accounts

----------------------------------------------------------------------------
\* The library of sets: the paths of path_checkout_sets.go and the check-out
\* and check-in paths of a set.  Every call on storage, on checkOutHandler and
\* on a lock of checkOutLocks is one step of the request goroutine making it.
\* checkOutHandler is the handler these paths are written against: its Status
\* fails with ErrNotFound for an account without a record, its records carry
\* IsAvailable, its CheckOut fails with ErrCheckedOut.

\* strutil.Difference: the names of a that are not in b, sorted.
Difference(a, b) ==
    SelectSeq(MemberOrder,
              LAMBDA m : /\ \E i \in DOMAIN a : a[i] = m
                         /\ \A j \in DOMAIN b : b[j] # m)

\* librarySet.Validate: nil, or the error.
ValidateWithoutTTLs(l) ==
    IF Len(l.ServiceAccountNames) < 1 THEN "at least one service account" ELSE "nil"
Validate(l) ==
    IF Len(l.ServiceAccountNames) < 1 THEN "at least one service account"
    ELSE IF l.MaxTTL > 0 /\ l.MaxTTL < l.TTL THEN "max_ttl may not be less than ttl"
    ELSE "nil"

\* checkinAuthorized of the check-in path, and canCheckIn of its predecessor.
checkinAuthorizedByEquality(id, checkOut) ==
    \/ checkOut.BorrowerEntityID = id.EntityID
    \/ checkOut.BorrowerClientToken = id.ClientToken
checkinAuthorized(id, checkOut) ==
    \/ /\ checkOut.BorrowerEntityID # "" /\ id.EntityID # ""
       /\ checkOut.BorrowerEntityID = id.EntityID
    \/ /\ checkOut.BorrowerClientToken # "" /\ id.ClientToken # ""
       /\ checkOut.BorrowerClientToken = id.ClientToken
canCheckIn(id, checkOut, disableCheckInEnforcement) ==
    \/ disableCheckInEnforcement
    \/ /\ checkOut.BorrowerEntityID # "" /\ id.EntityID # ""
       /\ checkOut.BorrowerEntityID = id.EntityID
    \/ /\ checkOut.BorrowerClientToken # "" /\ id.ClientToken # ""
       /\ checkOut.BorrowerClientToken = id.ClientToken

\* checkOutHandler.Status: the record, or nothing for ErrNotFound.
HandlerStatus(a) == checkOuts[a]
IsCheckedOut(a) == \E c \in checkOuts[a] : ~c.IsAvailable
\* checkOutHandler.CheckIn: the password is rotated and stored, the record
\* says available.  checkOutHandler.Delete: both are removed.
HandlerCheckIn(a) ==
    /\ stored' = [stored EXCEPT ![a] = TRUE]
    /\ checkOuts' = [checkOuts EXCEPT ![a] = {Available}]
HandlerDelete(a) ==
    /\ stored' = [stored EXCEPT ![a] = FALSE]
    /\ checkOuts' = [checkOuts EXCEPT ![a] = {}]

\* locksutil.LockForKey, and lock.Unlock() of the locks taken for accounts.
LockForKey(a) == lockIndex[a]
Unlock(p, accts) ==
    checkOutLocks' =
        [l \in DOMAIN checkOutLocks |->
            IF checkOutLocks[l] = p /\ \E a \in accts : LockForKey(a) = l
            THEN NoThread ELSE checkOutLocks[l]]

\* The request goroutine moves on inside its path, or returns a response
\* (the frame keeps what the request was, for the properties).
Move(p, f) == req' = [req EXCEPT ![p] = f]
Respond(p, resp, data) ==
    req' = [req EXCEPT ![p] = [NoReq EXCEPT !.resp = resp, !.checkIns = data,
                                            !.kind = req[p].kind,
                                            !.names = req[p].names,
                                            !.alone = req[p].alone]]
\* The request goroutine enters a path: it is alone if no other request is
\* inside one, and from now on no other request is.
Enter(p, f) ==
    req' = [q \in Procs |->
               IF q = p
               THEN [f EXCEPT !.alone = \A r \in Procs \ {p} : req[r].pc = "idle"]
               ELSE [req[q] EXCEPT !.alone = FALSE]]

\* A request arrives for a set of `names`, of a kind of `kinds`.  A write is dispatched as
\* a create or as an update by operationSetExistenceCheck; it sends the fields
\* of `fields` it likes, the others have the schema's defaults.  A forced
\* check-in never looks at who asks.
LibRequest(p, names, kinds, fields) ==
    /\ req[p].pc = "idle"
    /\ setOps > 0
    /\ setOps' = setOps - 1
    /\ \E n \in names :
        \/ /\ "write" \in kinds
           /\ \E sent \in SUBSET fields :
              \E l \in IF "service_account_names" \in sent THEN NameLists ELSE {<< >>} :
              \E ttl \in IF "ttl" \in sent THEN TTLs ELSE {DefaultTTL} :
              \E maxTTL \in IF "max_ttl" \in sent THEN TTLs ELSE {DefaultTTL} :
              \E d \in IF "disable_check_in_enforcement" \in sent THEN BOOLEAN ELSE {FALSE} :
                LET f == [NoReq EXCEPT !.name = n, !.names = l, !.sent = sent, !.ttl = ttl,
                                       !.maxTTL = maxTTL, !.disable = d, !.todo = l]
                IN  IF library[n] # {}
                    THEN Enter(p, [f EXCEPT !.kind = "update", !.pc = "read"])
                    ELSE IF Len(l) = 0
                         THEN Enter(p, [NoReq EXCEPT !.kind = "create",
                                          !.resp = "service_account_names must be provided"])
                         ELSE Enter(p, [f EXCEPT !.kind = "create", !.pc = "status"])
        \/ /\ "delete" \in kinds
           /\ Enter(p, [NoReq EXCEPT !.name = n, !.kind = "delete", !.pc = "read"])
        \/ /\ "check-out" \in kinds
           /\ \E id \in Identities, sent \in SUBSET (fields \cap {"ttl"}) :
              \E ttl \in IF "ttl" \in sent THEN RequestedTTLs ELSE {0} :
                Enter(p, [NoReq EXCEPT !.name = n, !.kind = "check-out", !.id = id,
                                      !.sent = sent, !.ttl = ttl, !.pc = "read"])
        \/ /\ "check-out without locks" \in kinds
           /\ \E id \in Identities :
                Enter(p, [NoReq EXCEPT !.name = n, !.kind = "check-out without locks",
                                      !.id = id, !.pc = "read"])
        \/ /\ "check-in" \in kinds
           /\ \E l \in NameLists, o \in BOOLEAN :
              \E id \in IF o THEN {NoIdentity} ELSE Identities :
                Enter(p, [NoReq EXCEPT !.name = n, !.kind = "check-in", !.id = id,
                                      !.names = l, !.override = o, !.pc = "read"])
    /\ UNCHANGED <<library, checkOuts, stored, checkOutLocks, lockIndex, stackVars, rootVars>>

\* readSet, at the start of every path but operationReserveCreate.
readSet(p) ==
    LET f == req[p] IN
    /\ f.pc = "read"
    /\ IF library[f.name] = {}
       THEN Respond(p, IF f.kind = "delete" THEN "nil" ELSE "doesn't exist", << >>)
       ELSE LET set == CHOOSE l \in library[f.name] : TRUE
                g == [f EXCEPT !.set = set, !.i = 1]
            IN  CASE f.kind = "update" ->
                       IF "service_account_names" \in f.sent
                       THEN Move(p, [g EXCEPT !.pc = "status",
                                       !.todo = Difference(f.names, set.ServiceAccountNames)])
                       ELSE Move(p, [g EXCEPT !.pc = "store"])
                  [] f.kind = "delete" ->
                       Move(p, [g EXCEPT !.pc = "delstatus",
                                         !.todo = set.ServiceAccountNames])
                  [] f.kind = "check-out" ->
                       Move(p, [g EXCEPT !.pc = "lock", !.todo = set.ServiceAccountNames])
                  [] f.kind = "check-out without locks" ->
                       Move(p, [g EXCEPT !.pc = "find", !.todo = set.ServiceAccountNames])
                  [] f.kind = "check-in" ->
                       Move(p, [g EXCEPT !.pc = "lock",
                                         !.todo = IF Len(f.names) = 0
                                                  THEN set.ServiceAccountNames
                                                  ELSE f.names])
    /\ UNCHANGED <<library, checkOuts, stored, checkOutLocks, lockIndex, setOps, stackVars, rootVars>>

\* operationReserveCreate and operationReserveUpdate make sure that no account
\* being added has a CheckOut: one Status per account.
AlreadyManaged(p) ==
    LET f == req[p] IN
    /\ f.pc = "status"
    /\ IF f.i > Len(f.todo)
       THEN IF f.managed
            THEN Respond(p, "already managed by another set", << >>)
            ELSE Move(p, [f EXCEPT !.pc = "checkin", !.i = 1])
       ELSE Move(p, [f EXCEPT !.i = @ + 1,
                              !.managed = @ \/ HandlerStatus(f.todo[f.i]) # {}])
    /\ UNCHANGED <<library, checkOuts, stored, checkOutLocks, lockIndex, setOps, stackVars, rootVars>>

\* ... and check every account being added in: one CheckIn per account, which
\* fails if the directory does.
InitialCheckIn(p) ==
    LET f == req[p] IN
    /\ f.pc = "checkin"
    /\ IF f.i > Len(f.todo)
       THEN /\ IF f.kind = "create"
               THEN Move(p, [f EXCEPT !.pc = "store"])
               ELSE Move(p, [f EXCEPT !.pc = "delstatus", !.i = 1,
                               !.todo = Difference(f.set.ServiceAccountNames, f.names)])
            /\ UNCHANGED <<checkOuts, stored>>
       ELSE \/ /\ HandlerCheckIn(f.todo[f.i])
               /\ Move(p, [f EXCEPT !.i = @ + 1])
            \/ /\ Respond(p, "err", << >>)
               /\ UNCHANGED <<checkOuts, stored>>
    /\ UNCHANGED <<library, checkOutLocks, lockIndex, setOps, stackVars, rootVars>>

\* deleteSetServiceAccount, for each account operationReserveUpdate drops and
\* each account of the set operationReserveDelete deletes: its Status ...
deleteSetServiceAccountStatus(p) ==
    LET f == req[p] IN
    /\ f.pc = "delstatus"
    /\ IF f.i > Len(f.todo)
       THEN IF f.failed
            THEN Respond(p, "err", << >>)
            ELSE Move(p, [f EXCEPT !.pc = IF f.kind = "delete" THEN "drop" ELSE "store"])
       ELSE IF HandlerStatus(f.todo[f.i]) = {}
            THEN Move(p, [f EXCEPT !.i = @ + 1])
            ELSE IF IsCheckedOut(f.todo[f.i])
                 THEN Move(p, [f EXCEPT !.i = @ + 1, !.failed = TRUE])
                 ELSE Move(p, [f EXCEPT !.pc = "delete"])
    /\ UNCHANGED <<library, checkOuts, stored, checkOutLocks, lockIndex, setOps, stackVars, rootVars>>

\* ... and its Delete.
deleteSetServiceAccountDelete(p) ==
    LET f == req[p] IN
    /\ f.pc = "delete"
    /\ HandlerDelete(f.todo[f.i])
    /\ Move(p, [f EXCEPT !.pc = "delstatus", !.i = @ + 1])
    /\ UNCHANGED <<library, checkOutLocks, lockIndex, setOps, stackVars, rootVars>>

\* The set operationReserveCreate builds, and the one operationReserveUpdate
\* makes of the set it read.
SetToStore(f) ==
    IF f.kind = "create"
    THEN [ServiceAccountNames |-> f.names, TTL |-> f.ttl, MaxTTL |-> f.maxTTL,
          DisableCheckInEnforcement |-> f.disable]
    ELSE [ServiceAccountNames |->
              IF "service_account_names" \in f.sent THEN f.names
              ELSE f.set.ServiceAccountNames,
          TTL |-> IF "ttl" \in f.sent THEN f.ttl ELSE f.set.TTL,
          MaxTTL |-> IF "max_ttl" \in f.sent THEN f.maxTTL ELSE f.set.MaxTTL,
          DisableCheckInEnforcement |->
              IF "disable_check_in_enforcement" \in f.sent THEN f.disable
              ELSE f.set.DisableCheckInEnforcement]

\* set.Validate() and storeSet, the end of a create and of an update.
storeSet(p) ==
    LET f == req[p] IN
    /\ f.pc = "store"
    /\ IF Validate(SetToStore(f)) # "nil"
       THEN /\ Respond(p, Validate(SetToStore(f)), << >>)
            /\ UNCHANGED library
       ELSE /\ library' = [library EXCEPT ![f.name] = {SetToStore(f)}]
            /\ Respond(p, "nil", << >>)
    /\ UNCHANGED <<checkOuts, stored, checkOutLocks, lockIndex, setOps, stackVars, rootVars>>

\* req.Storage.Delete of the set, the end of operationReserveDelete.
StorageDeleteSet(p) ==
    LET f == req[p] IN
    /\ f.pc = "drop"
    /\ library' = [library EXCEPT ![f.name] = {}]
    /\ Respond(p, "nil", << >>)
    /\ UNCHANGED <<checkOuts, stored, checkOutLocks, lockIndex, setOps, stackVars, rootVars>>

\* The switch of operationCheckIn on the number of accounts to check in.
SwitchOneOrMore(n) == IF n = 0 THEN "none" ELSE "one"
Switch(n) == IF n = 0 THEN "none" ELSE IF n = 1 THEN "one" ELSE "many"

\* lock.Lock() on the lock of the next account of a check-out or a check-in,
\* and what these paths do after their last account.
Lock(p) ==
    LET f == req[p] IN
    /\ f.pc = "lock"
    /\ IF f.i > Len(f.todo)
       THEN CASE f.kind = "check-out" ->
                   /\ Respond(p, "429 No service accounts available for check-out.", << >>)
                   /\ UNCHANGED checkOutLocks
              [] f.kind = "check-in" /\ Len(f.names) > 0 ->
                   /\ Respond(p, IF f.cant THEN "can't be checked in" ELSE "ok", f.checkIns)
                   /\ UNCHANGED checkOutLocks
              [] f.kind = "check-in" /\ Len(f.names) = 0
                        /\ Switch(Cardinality(f.held)) = "none" ->
                   /\ Respond(p, "ok", << >>)
                   /\ UNCHANGED checkOutLocks
              [] f.kind = "check-in" /\ Len(f.names) = 0
                        /\ Switch(Cardinality(f.held)) = "one" ->
                   /\ Move(p, [f EXCEPT !.pc = "in"])
                   /\ UNCHANGED checkOutLocks
              [] f.kind = "check-in" /\ Len(f.names) = 0
                        /\ Switch(Cardinality(f.held)) = "many" ->
                   /\ Respond(p, "service_account_names must be provided", << >>)
                   /\ Unlock(p, f.held)
       ELSE /\ checkOutLocks[LockForKey(f.todo[f.i])] = NoThread
            /\ checkOutLocks' = [checkOutLocks EXCEPT ![LockForKey(f.todo[f.i])] = p]
            /\ Move(p, [f EXCEPT !.pc = CASE f.kind = "check-out" -> "out"
                                          [] Len(f.names) = 0 -> "scan"
                                          [] OTHER -> "named"])
    /\ UNCHANGED <<library, checkOuts, stored, lockIndex, setOps, stackVars, rootVars>>

\* backend.checkOut under the account's lock: checkOutHandler.CheckOut ...
checkOut(p) ==
    LET f == req[p]
        a == f.todo[f.i]
    IN
    /\ f.pc = "out"
    /\ IF IsCheckedOut(a)
       THEN /\ Unlock(p, {a})
            /\ Move(p, [f EXCEPT !.pc = "lock", !.i = @ + 1])
            /\ UNCHANGED checkOuts
       ELSE /\ checkOuts' = [checkOuts EXCEPT ![a] = {newCheckOut(f.id)}]
            /\ Move(p, [f EXCEPT !.pc = "retrieve"])
            /\ UNCHANGED checkOutLocks
    /\ UNCHANGED <<library, stored, lockIndex, setOps, stackVars, rootVars>>

\* operationSetCheckOut's "Prepare the check-out we'd like to execute": the
\* lease's ttl, from the set's TTL and the ttl of the request if one was sent.
LeaseTTL(setTTL, ttlPeriodSent, requestedTTL) ==
    IF ttlPeriodSent /\ setTTL <= 0 /\ requestedTTL > 0 THEN requestedTTL
    ELSE IF ttlPeriodSent /\ setTTL > 0 /\ requestedTTL < setTTL THEN requestedTTL
    ELSE setTTL

\* The response of a check-out with its Secret: the account in the internal
\* data, resp.Secret.TTL and resp.Secret.MaxTTL; the frame keeps whose
\* check-out the Secret was issued for.
Secret(p, a) ==
    req' = [req EXCEPT ![p] =
               [NoReq EXCEPT !.resp = "creds", !.checkIns = <<a>>,
                             !.kind = req[p].kind, !.names = req[p].names,
                             !.alone = req[p].alone, !.id = req[p].id,
                             !.ttl = LeaseTTL(req[p].set.TTL, "ttl" \in req[p].sent,
                                              req[p].ttl),
                             !.maxTTL = req[p].set.MaxTTL]]

\* ... and retrievePassword, whose result operationSetCheckOut returns.
retrievePassword(p) ==
    LET f == req[p]
        a == f.todo[f.i]
    IN
    /\ f.pc = "retrieve"
    /\ Unlock(p, {a})
    /\ IF stored[a] THEN Secret(p, a) ELSE Respond(p, "err", << >>)
    /\ UNCHANGED <<library, checkOuts, stored, lockIndex, setOps, stackVars, rootVars>>

\* operationSetCheckOut as it was before the locks: the Status of the next
\* account of the set, until one is available ...
operationSetCheckOutStatus(p) ==
    LET f == req[p]
        a == f.todo[f.i]
    IN
    /\ f.pc = "find"
    /\ IF HandlerStatus(a) = {}
       THEN Respond(p, "err", << >>)
       ELSE IF ~IsCheckedOut(a)
            THEN Move(p, [f EXCEPT !.pc = "take"])
            ELSE IF f.i < Len(f.todo)
                 THEN Move(p, [f EXCEPT !.i = @ + 1])
                 ELSE Respond(p, "429 No service accounts available for check-out.", << >>)
    /\ UNCHANGED <<library, checkOuts, stored, checkOutLocks, lockIndex, setOps, stackVars, rootVars>>

\* ... its CheckOut of the account found ...
operationSetCheckOutCheckOut(p) ==
    LET f == req[p]
        a == f.todo[f.i]
    IN
    /\ f.pc = "take"
    /\ IF IsCheckedOut(a)
       THEN /\ Respond(p, "err", << >>)
            /\ UNCHANGED checkOuts
       ELSE /\ checkOuts' = [checkOuts EXCEPT ![a] = {newCheckOut(f.id)}]
            /\ Move(p, [f EXCEPT !.pc = "password"])
    /\ UNCHANGED <<library, stored, checkOutLocks, lockIndex, setOps, stackVars, rootVars>>

\* ... and its retrievePassword.
operationSetCheckOutPassword(p) ==
    LET f == req[p]
        a == f.todo[f.i]
    IN
    /\ f.pc = "password"
    /\ Respond(p, IF stored[a] THEN "creds" ELSE "err", IF stored[a] THEN <<a>> ELSE << >>)
    /\ UNCHANGED <<library, checkOuts, stored, checkOutLocks, lockIndex, setOps, stackVars, rootVars>>

\* operationCheckIn without service_account_names: the Status of the next
\* account of the set under its lock, which is kept if the account is one
\* to check in.  An error returns before the deferred release of the locks
\* kept so far is registered.
operationCheckInScan(p) ==
    LET f == req[p]
        a == f.todo[f.i]
        disableCheckInEnforcement == f.override \/ f.set.DisableCheckInEnforcement
    IN
    /\ f.pc = "scan"
    /\ IF HandlerStatus(a) = {}
       THEN /\ Unlock(p, {a})
            /\ Respond(p, "err", << >>)
       ELSE LET current == CHOOSE c \in HandlerStatus(a) : TRUE IN
            IF \/ current.IsAvailable
               \/ ~disableCheckInEnforcement /\ ~checkinAuthorized(f.id, current)
            THEN /\ Unlock(p, {a})
                 /\ Move(p, [f EXCEPT !.pc = "lock", !.i = @ + 1])
            ELSE /\ Move(p, [f EXCEPT !.pc = "lock", !.i = @ + 1, !.held = @ \cup {a}])
                 /\ UNCHANGED checkOutLocks
    /\ UNCHANGED <<library, checkOuts, stored, lockIndex, setOps, stackVars, rootVars>>

\* ... and the CheckIn of the one account found.
operationCheckInOne(p) ==
    LET f == req[p] IN
    /\ f.pc = "in"
    /\ Unlock(p, f.held)
    /\ \E a \in f.held :
        \/ /\ HandlerCheckIn(a)
           /\ Respond(p, "ok", <<a>>)
        \/ /\ Respond(p, "err", << >>)
           /\ UNCHANGED <<checkOuts, stored>>
    /\ UNCHANGED <<library, lockIndex, setOps, stackVars, rootVars>>

\* operationCheckIn with service_account_names: the Status of the next name
\* under its lock ...
operationCheckInNamed(p) ==
    LET f == req[p]
        a == f.todo[f.i]
        disableCheckInEnforcement == f.override \/ f.set.DisableCheckInEnforcement
    IN
    /\ f.pc = "named"
    /\ IF HandlerStatus(a) = {}
       THEN /\ Unlock(p, {a})
            /\ Respond(p, "err", << >>)
       ELSE LET current == CHOOSE c \in HandlerStatus(a) : TRUE IN
            IF current.IsAvailable
            THEN /\ Unlock(p, {a})
                 /\ Move(p, [f EXCEPT !.pc = "lock", !.i = @ + 1])
            ELSE IF ~disableCheckInEnforcement /\ ~checkinAuthorized(f.id, current)
                 THEN /\ Unlock(p, {a})
                      /\ Move(p, [f EXCEPT !.pc = "lock", !.i = @ + 1, !.cant = TRUE])
                 ELSE /\ Move(p, [f EXCEPT !.pc = "namedin"])
                      /\ UNCHANGED checkOutLocks
    /\ UNCHANGED <<library, checkOuts, stored, lockIndex, setOps, stackVars, rootVars>>

\* ... and its CheckIn.
operationCheckInNamedCheckIn(p) ==
    LET f == req[p]
        a == f.todo[f.i]
    IN
    /\ f.pc = "namedin"
    /\ Unlock(p, {a})
    /\ \/ /\ HandlerCheckIn(a)
          /\ Move(p, [f EXCEPT !.pc = "lock", !.i = @ + 1, !.checkIns = Append(@, a)])
       \/ /\ Respond(p, "err", << >>)
          /\ UNCHANGED <<checkOuts, stored>>
    /\ UNCHANGED <<library, lockIndex, setOps, stackVars, rootVars>>

\* A set as operationReserveCreate stores it with the schema's defaults.
DefaultSet(names, disable) ==
    [ServiceAccountNames |-> names, TTL |-> DefaultTTL, MaxTTL |-> DefaultTTL,
     DisableCheckInEnforcement |-> disable]

\* The stack of checkout_handlers.go at rest, with the locks of the library.
LibMemory ==
    /\ forLeader = TRUE
    /\ opsLeft = 0
    /\ checkout = [a \in Accounts |-> Nil]
    /\ sets = [k \in SetKeys |-> {}]
    /\ boot = NoBoot
    /\ startup = checkout
    /\ InitMemory
    /\ NoRoot
    /\ setOps = MaxSetOps

\* What locksutil.LockForKey can be, up to the numbering of the locks.
LockIndexes == {h \in [Members -> 0..(NumLocks - 1)] : h[MemberOrder[1]] = 0}

\* Administrators and borrowers: storage has no set, or the set "s" of all
\* accounts, created and not yet lent from.
LibInit ==
    /\ LibMemory
    /\ lockIndex \in LockIndexes
    /\ \/ NoSets
       \/ /\ library = [n \in LibNames |->
                            IF n = "s" THEN {DefaultSet(MemberOrder, FALSE)} ELSE {}]
          /\ checkOuts = [a \in Members |-> {Available}]
          /\ stored = [a \in Members |-> TRUE]

LibNext ==
    \/ \E p \in Procs :
         LibRequest(p, LibNames, {"write", "delete", "check-out"},
                    {"service_account_names", "disable_check_in_enforcement"})
    \/ \E p \in Procs : readSet(p)
    \/ \E p \in Procs : AlreadyManaged(p)
    \/ \E p \in Procs : InitialCheckIn(p)
    \/ \E p \in Procs : deleteSetServiceAccountStatus(p)
    \/ \E p \in Procs : deleteSetServiceAccountDelete(p)
    \/ \E p \in Procs : storeSet(p)
    \/ \E p \in Procs : StorageDeleteSet(p)
    \/ \E p \in Procs : Lock(p)
    \/ \E p \in Procs : checkOut(p)
    \/ \E p \in Procs : retrievePassword(p)

SpecLib == LibInit /\ [][LibNext]_vars

\* Borrowers, and an administrator deleting sets: storage has the set "s",
\* with or without check-in enforcement, and each of its accounts is
\* available or checked out.
Borrowers == {[EntityID |-> "e1", ClientToken |-> "t1"], [EntityID |-> "", ClientToken |-> "t2"]}
LendInit ==
    /\ LibMemory
    /\ lockIndex \in LockIndexes
    /\ \E d \in BOOLEAN :
       \E c \in [Members -> {Available} \cup {newCheckOut(id) : id \in Borrowers}] :
         /\ library = [n \in LibNames |->
                          IF n = "s" THEN {DefaultSet(MemberOrder, d)} ELSE {}]
         /\ checkOuts = [a \in Members |-> {c[a]}]
         /\ stored = [a \in Members |-> TRUE]

LendNext ==
    \/ \E p \in Procs : LibRequest(p, {"s"}, {"delete", "check-out", "check-in"}, {})
    \/ \E p \in Procs : readSet(p)
    \/ \E p \in Procs : deleteSetServiceAccountStatus(p)
    \/ \E p \in Procs : deleteSetServiceAccountDelete(p)
    \/ \E p \in Procs : StorageDeleteSet(p)
    \/ \E p \in Procs : Lock(p)
    \/ \E p \in Procs : checkOut(p)
    \/ \E p \in Procs : retrievePassword(p)
    \/ \E p \in Procs : operationCheckInScan(p)
    \/ \E p \in Procs : operationCheckInOne(p)
    \/ \E p \in Procs : operationCheckInNamed(p)
    \/ \E p \in Procs : operationCheckInNamedCheckIn(p)

SpecLend == LendInit /\ [][LendNext]_vars

\* Borrowers checking out of the same set through operationSetCheckOut as it
\* was before the locks.
UnlockedNext ==
    \/ \E p \in Procs : LibRequest(p, {"s"}, {"check-out without locks"}, {})
    \/ \E p \in Procs : readSet(p)
    \/ \E p \in Procs : operationSetCheckOutStatus(p)
    \/ \E p \in Procs : operationSetCheckOutCheckOut(p)
    \/ \E p \in Procs : operationSetCheckOutPassword(p)

SpecUnlocked == LendInit /\ [][UnlockedNext]_vars

\* The request of p holds the Secret of a check-out: Vault calls the Secret's
\* Renew and Revoke with it.
HoldsSecret(p) ==
    /\ req[p].pc = "idle"
    /\ req[p].kind = "check-out"
    /\ req[p].resp \in {"creds", "renewed"}

\* The lease operation returns; other requests are no longer alone.
LeaseReturn(p, resp) ==
    req' = [q \in Procs |->
               IF q = p THEN [req[p] EXCEPT !.resp = resp]
               ELSE [req[q] EXCEPT !.alone = FALSE]]

\* renewCheckOut, from lock.Lock() to the deferred lock.Unlock(): the Status
\* of the account of the Secret's internal data.
renewCheckOut(p) ==
    LET a == req[p].checkIns[1] IN
    /\ HoldsSecret(p)
    /\ checkOutLocks[LockForKey(a)] = NoThread
    /\ IF HandlerStatus(a) = {}
       THEN LeaseReturn(p, "err")
       ELSE IF ~IsCheckedOut(a)
            THEN LeaseReturn(p, "is already checked in, please call check-out to regain it")
            ELSE LeaseReturn(p, "renewed")
    /\ UNCHANGED <<library, checkOuts, stored, checkOutLocks, lockIndex, setOps, stackVars, rootVars>>

\* endCheckOut, from lock.Lock() to the deferred lock.Unlock(): the CheckIn
\* of the account of the Secret's internal data.
endCheckOut(p) ==
    LET a == req[p].checkIns[1] IN
    /\ HoldsSecret(p)
    /\ checkOutLocks[LockForKey(a)] = NoThread
    /\ HandlerCheckIn(a)
    /\ LeaseReturn(p, "revoked")
    /\ UNCHANGED <<library, checkOutLocks, lockIndex, setOps, stackVars, rootVars>>

\* Borrowers with leases: storage has the set "s" of all accounts, created
\* and not yet lent from.
LeaseInit ==
    /\ forLeader = TRUE
    /\ opsLeft = 0
    /\ checkout = [a \in Accounts |-> Nil]
    /\ sets = [k \in SetKeys |-> {}]
    /\ boot = NoBoot
    /\ startup = checkout
    /\ InitMemory
    /\ NoRoot
    /\ setOps = MaxLeaseOps
    /\ lockIndex \in LockIndexes
    /\ library = [n \in LibNames |->
                     IF n = "s" THEN {DefaultSet(MemberOrder, FALSE)} ELSE {}]
    /\ checkOuts = [a \in Members |-> {Available}]
    /\ stored = [a \in Members |-> TRUE]

LeaseNext ==
    \/ \E p \in Procs : LibRequest(p, {"s"}, {"check-out", "check-in"}, {})
    \/ \E p \in Procs : readSet(p)
    \/ \E p \in Procs : Lock(p)
    \/ \E p \in Procs : checkOut(p)
    \/ \E p \in Procs : retrievePassword(p)
    \/ \E p \in Procs : operationCheckInScan(p)
    \/ \E p \in Procs : operationCheckInOne(p)
    \/ \E p \in Procs : operationCheckInNamed(p)
    \/ \E p \in Procs : operationCheckInNamedCheckIn(p)
    \/ \E p \in Procs : renewCheckOut(p)
    \/ \E p \in Procs : endCheckOut(p)

SpecLease == LeaseInit /\ [][LeaseNext]_vars

\* Check-outs with and without a ttl, of a stored set "s" with any valid
\* ttl and max_ttl, every account available.
CheckOutInit ==
    /\ LibMemory
    /\ lockIndex \in LockIndexes
    /\ \E ttl \in TTLs, maxTTL \in TTLs :
         /\ Validate([DefaultSet(MemberOrder, FALSE) EXCEPT
                         !.TTL = ttl, !.MaxTTL = maxTTL]) = "nil"
         /\ library = [n \in LibNames |->
                          IF n = "s" THEN {[DefaultSet(MemberOrder, FALSE) EXCEPT
                                               !.TTL = ttl, !.MaxTTL = maxTTL]}
                          ELSE {}]
    /\ checkOuts = [a \in Members |-> {Available}]
    /\ stored = [a \in Members |-> TRUE]

CheckOutNext ==
    \/ \E p \in Procs : LibRequest(p, {"s"}, {"check-out"}, {"ttl"})
    \/ \E p \in Procs : readSet(p)
    \/ \E p \in Procs : Lock(p)
    \/ \E p \in Procs : checkOut(p)
    \/ \E p \in Procs : retrievePassword(p)

SpecCheckOut == CheckOutInit /\ [][CheckOutNext]_vars

\* One administrator writing and deleting a set, with every field and ttl.
AdminInit ==
    /\ LibMemory
    /\ lockIndex = [a \in Members |-> 0]
    /\ NoSets

AdminNext ==
    \/ LibRequest(<<"p", 1>>, {"s"}, {"write", "delete"}, Fields)
    \/ readSet(<<"p", 1>>)
    \/ AlreadyManaged(<<"p", 1>>)
    \/ InitialCheckIn(<<"p", 1>>)
    \/ deleteSetServiceAccountStatus(<<"p", 1>>)
    \/ deleteSetServiceAccountDelete(<<"p", 1>>)
    \/ storeSet(<<"p", 1>>)
    \/ StorageDeleteSet(<<"p", 1>>)

SpecAdmin == AdminInit /\ [][AdminNext]_vars

-----------------------------------------------------------------------------
\* The rotation of the root credential (path_rotate_root_creds.go).  The
\* directory takes or refuses an update whatever the configuration it is
\* called with.  A receive of a select that blocks is decided by the first
\* of its channels to become ready; one that finds several ready picks any.

\* GeneratePassword: a password that is nowhere yet.
Passwords == 0..MaxRotations
InUse ==
    {rootPassword} \cup engineConf
        \cup {rotation[q].newPassword : q \in {r \in Procs : rotation[r].pc # "idle"}}
        \cup {rotation[q].oldPassword : q \in {r \in Procs : rotation[r].pc # "idle"}}
GenerateRootPassword ==
    CHOOSE n \in Passwords \ InUse : \A m \in Passwords \ InUse : n <= m

\* The request goroutine moves on inside pathRotateCredentialsUpdate, or
\* returns; the deferred CompareAndSwapInt32(b.rotateRootLock, 1, 0) runs
\* at every return that follows the first one.
Step(p, f) == rotation' = [rotation EXCEPT ![p] = f]
Returns(p, f, resp) ==
    rotation' = [rotation EXCEPT ![p] =
                    [f EXCEPT !.pc = "idle", !.resp = resp,
                              !.fatal = @ \/ resp = "unable to store and unable to return"]]

\* A request arrives at rotate-root, with a context that is not done.
RotateRequest(p) ==
    /\ rotation[p].pc = "idle"
    /\ rootOps > 0
    /\ rootOps' = rootOps - 1
    /\ Step(p, [NoRotation EXCEPT !.pc = "config", !.fatal = rotation[p].fatal])
    /\ UNCHANGED <<engineConf, rootPassword, rotateRootLock, stackVars, libVars>>

\* The enclosing context of a request inside rotate-root is cancelled; a
\* rollBackPassword blocked in its select receives from ctx.Done().
ContextDone(p) ==
    LET f == rotation[p] IN
    /\ f.pc # "idle"
    /\ ~f.done
    /\ Step(p, [f EXCEPT !.done = TRUE,
                         !.pc = IF f.pc = "blocked" THEN "done" ELSE @])
    /\ UNCHANGED <<engineConf, rootPassword, rotateRootLock, rootOps, stackVars, libVars>>

\* The timer of rollBackPassword fires; a rollBackPassword blocked in its
\* select receives from timer.C.
TimerFires(p) ==
    LET f == rotation[p] IN
    /\ f.pc \in {"select", "blocked"}
    /\ ~f.fired
    /\ Step(p, [f EXCEPT !.fired = TRUE,
                         !.pc = IF f.pc = "blocked" THEN "attempt" ELSE @])
    /\ UNCHANGED <<engineConf, rootPassword, rotateRootLock, rootOps, stackVars, libVars>>

\* readConfig, GeneratePassword and the copy of the bind password in
\* storage; each of the two calls may fail.
readConfig(p) ==
    LET f == rotation[p] IN
    /\ f.pc = "config"
    /\ \/ Returns(p, f, "err")
       \/ IF engineConf = {}
          THEN Returns(p, f, "the config is currently unset")
          ELSE Step(p, [f EXCEPT !.pc = "cas", !.newPassword = GenerateRootPassword,
                                !.oldPassword = CHOOSE w \in engineConf : TRUE])
    /\ UNCHANGED <<engineConf, rootPassword, rotateRootLock, rootOps, stackVars, libVars>>

\* atomic.CompareAndSwapInt32(b.rotateRootLock, 0, 1).
CompareAndSwap(p) ==
    LET f == rotation[p] IN
    /\ f.pc = "cas"
    /\ IF rotateRootLock = 0
       THEN /\ rotateRootLock' = 1
            /\ Step(p, [f EXCEPT !.pc = "update"])
       ELSE /\ Returns(p, f, "Root password rotation is already in progress.")
            /\ UNCHANGED rotateRootLock
    /\ UNCHANGED <<engineConf, rootPassword, rootOps, stackVars, libVars>>

\* b.client.UpdateRootPassword with the new password.
UpdateRootPassword(p) ==
    LET f == rotation[p] IN
    /\ f.pc = "update"
    /\ \/ /\ rootPassword' = f.newPassword
          /\ Step(p, [f EXCEPT !.pc = "write"])
          /\ UNCHANGED rotateRootLock
       \/ /\ Returns(p, f, "err")
          /\ rotateRootLock' = 0
          /\ UNCHANGED rootPassword
    /\ UNCHANGED <<engineConf, rootOps, stackVars, libVars>>

\* writeConfig of the configuration with the new bind password; if it fails
\* rollBackPassword starts, with the timer of its first attempt.
writeConfig(p) ==
    LET f == rotation[p] IN
    /\ f.pc = "write"
    /\ \/ /\ engineConf' = {f.newPassword}
          /\ Returns(p, f, "nil")
          /\ rotateRootLock' = 0
       \/ /\ Step(p, [f EXCEPT !.pc = "select", !.i = 0, !.fired = FALSE])
          /\ UNCHANGED <<engineConf, rotateRootLock>>
    /\ UNCHANGED <<rootPassword, rootOps, stackVars, libVars>>

\* The end of rollBackPassword in pathRotateCredentialsUpdate.
ReturnRollback(p, f, rollbackErr) ==
    Returns(p, [f EXCEPT !.rollbackErr = rollbackErr],
           IF rollbackErr = "nil" THEN "unable to update password due to storage err"
           ELSE "unable to store and unable to return")

\* The select of rollBackPassword: a receive from a channel that is ready,
\* or the goroutine blocks until one is.
rollBackPasswordSelect(p) ==
    LET f == rotation[p] IN
    /\ f.pc \in {"select", "done"}
    /\ \/ /\ f.pc = "select" /\ f.fired
          /\ Step(p, [f EXCEPT !.pc = "attempt"])
          /\ UNCHANGED rotateRootLock
       \/ /\ f.pc = "done" \/ f.done
          /\ ReturnRollback(p, f, "shutting down")
          /\ rotateRootLock' = 0
       \/ /\ f.pc = "select" /\ ~f.fired /\ ~f.done
          /\ Step(p, [f EXCEPT !.pc = "blocked"])
          /\ UNCHANGED rotateRootLock
    /\ UNCHANGED <<engineConf, rootPassword, rootOps, stackVars, libVars>>

\* b.client.UpdateRootPassword with the old password, and the next turn of
\* the loop with its timer.
rollBackPasswordUpdate(p) ==
    LET f == rotation[p]
        g == [f EXCEPT !.calls = @ + 1]
    IN
    /\ f.pc = "attempt"
    /\ \/ /\ rootPassword' = f.oldPassword
          /\ ReturnRollback(p, [g EXCEPT !.err = NoErr], "nil")
          /\ rotateRootLock' = 0
       \/ /\ IF f.i + 1 < Attempts
             THEN /\ Step(p, [g EXCEPT !.err = f.i, !.i = @ + 1, !.pc = "select",
                                       !.fired = FALSE])
                  /\ UNCHANGED rotateRootLock
             ELSE /\ ReturnRollback(p, [g EXCEPT !.err = f.i], "err")
                  /\ rotateRootLock' = 0
          /\ UNCHANGED rootPassword
    /\ UNCHANGED <<engineConf, rootOps, stackVars, libVars>>

\* A backend whose configuration holds the directory's bind password, or
\* none.
RootInit ==
    /\ forLeader = TRUE
    /\ opsLeft = 0
    /\ checkout = [a \in Accounts |-> Nil]
    /\ sets = [k \in SetKeys |-> {}]
    /\ boot = NoBoot
    /\ startup = checkout
    /\ InitMemory
    /\ NoLibrary
    /\ engineConf \in {{}, {InitialRoot}}
    /\ rootPassword = InitialRoot
    /\ rootOps = MaxRotations

RootNext ==
    \/ \E p \in Procs : RotateRequest(p)
    \/ \E p \in Procs : ContextDone(p)
    \/ \E p \in Procs : TimerFires(p)
    \/ \E p \in Procs : readConfig(p)
    \/ \E p \in Procs : CompareAndSwap(p)
    \/ \E p \in Procs : UpdateRootPassword(p)
    \/ \E p \in Procs : writeConfig(p)
    \/ \E p \in Procs : rollBackPasswordSelect(p)
    \/ \E p \in Procs : rollBackPasswordUpdate(p)

SpecRoot == RootInit /\ [][RootNext]_vars

----------------------------------------------------------------------------
\* Properties of the handler stack.

\* A goroutine is inside the handler wrapped by the ServiceAccountLocker, in a
\* mutating operation on account a.
InsideWrapped(t, a) ==
    /\ pc[t] \in {"put", "putpw", "del"}
    /\ op[t].acct = a

\* The goroutine t takes a step of its own (a panic stops every goroutine).
Steps(t) == pc'[t] # pc[t] /\ pc'[t] # "panic"

\* The step is t's CheckIn making account a available.
CheckInFlips(t, a) ==
    /\ op[t].kind \in {"CheckIn", "Watch"}
    /\ op[t].acct = a
    /\ Steps(t)
    /\ checkout[a] # Nil
    /\ checkout'[a] = Nil

\* C1: at most one CheckOut of an account succeeds between two consecutive
\* check-ins of it, whatever the interleaving of the concurrent requests.
C1_AtMostOneBorrower ==
    \A a \in Accounts : Cardinality(lent[a]) <= 1

\* C2: the callers of the ServiceAccountLocker for one account all hold the
\* same lock, also when they race on the first access, and no two mutating
\* operations on the account are inside the wrapped handler at the same time.
C2_MutatorsSerialized ==
    \A a \in Accounts : \A t1, t2 \in Threads :
        /\ (pc[t1] \in {"lock", "put", "putpw", "del"} /\ op[t1].acct = a
              /\ pc[t2] \in {"lock", "put", "putpw", "del"} /\ op[t2].acct = a)
             => lk[t1] = lk[t2]
        /\ (InsideWrapped(t1, a) /\ InsideWrapped(t2, a)) => t1 = t2

\* C3, as claimed: on a leader or a follower stack, a CheckIn makes an account
\* available only after it updated the remote password and persisted the new
\* password in the same call.
C3_RotationOnEveryStack ==
    [][\A t \in Threads : \A a \in Accounts :
          CheckInFlips(t, a) => rotated[t] = {"remote", "stored"}]_vars

\* C3, amended: on a leader stack, a CheckIn (by a caller or by a watcher)
\* makes an account available only after it updated the remote password and
\* persisted the new password in the same call.
C3_RotationOnLeader ==
    [][\A t \in Threads : \A a \in Accounts :
          (forLeader /\ CheckInFlips(t, a)) => rotated[t] = {"remote", "stored"}]_vars

\* A watcher's check-in has just made a checked-out account available on the
\* leader, the stored password being the one set remotely.
C3_Witness ==
    /\ forLeader
    /\ \E w \in Watchers : \E a \in Accounts :
        /\ pc[w] = "stopRead"
        /\ op[w].acct = a
        /\ checkout[a] = Nil
        /\ password[a] = remote[a]
        /\ password[a] # NoPassword

\* C4: while an account is checked out on the leader and no request is in
\* flight, a watcher that will check it in is alive; otherwise the check-out
\* is never reclaimed.
C4_EveryCheckOutWatched ==
    \A a \in Accounts :
        (/\ forLeader
         /\ ~Panicked
         /\ checkout[a] # Nil
         /\ \A p \in Procs : pc[p] = "idle")
        => \E w \in Watchers : op[w].acct = a /\ pc[w] \notin {"unborn", "done"}

\* C5: a watcher whose renewal channel has been closed by a CheckIn or Delete
\* that has completed (its stopWatching has returned) never calls CheckIn
\* afterwards.
C5_CancelledWatcherStops ==
    [][\A w \in Watchers :
          (pc[w] = "select" /\ pc'[w] \in {"store", "lock"})
          => \/ ~chClosed[w]
             \/ \E t \in Threads : pc[t] = "stopDelete" /\ ch[t] = w]_vars

\* C9: a CheckOut that reads the entry after a successful CheckOut, with no
\* check-in in between, returns ErrCurrentlyCheckedOut and leaves the stored
\* record as it is.
C9_SecondCheckOutFails ==
    [][\A t \in Procs :
          (/\ pc[t] = "lock"
           /\ op[t].kind = "CheckOut"
           /\ Steps(t)
           /\ lent[op[t].acct] # {})
          => /\ pc'[t] = "idle"
             /\ res'[t] = "ErrCurrentlyCheckedOut"
             /\ checkout' = checkout]_vars

\* A CheckOut has been refused while the account is lent to another request,
\* whose record is the stored one.
C9_Witness ==
    \E p, q \in Procs : \E a \in Accounts :
        /\ p # q
        /\ res[p] = "ErrCurrentlyCheckedOut"
        /\ lent[a] = {q}
        /\ checkout[a].borrower = q

C11_CheckInIdempotent ==
    [][\A t \in Procs :
          (/\ op[t].kind = "CheckIn"
           /\ pc[t] = "lock"
           /\ Steps(t)
           /\ ~CurrentlyCheckedOut(op[t].acct)
           /\ \A u \in Threads : ~InsideWrapped(u, op[t].acct))
          => /\ checkout' = checkout
             /\ password' = password
             /\ remote' = remote]_vars

\* C12: a Status never reads the record while a CheckIn of the same account
\* is in the middle: the password rotated, the record not yet deleted.
C12_NoTornRead ==
    [][\A t \in Procs :
          (op[t].kind = "Status" /\ pc[t] = "lock" /\ Steps(t))
          => ~\E u \in Threads :
                /\ u # t
                /\ op[u].kind \in {"CheckIn", "Watch"}
                /\ op[u].acct = op[t].acct
                /\ pc[u] \in {"putpw", "del"}]_vars

\* C13: after a RenewCheckOut that succeeded with a new due time not yet
\* elapsed, the watcher of the account, registered and not cancelled, does not
\* start a check-in before the stored due time has elapsed.
C13_RenewedWatcherWaits ==
    [][\A w \in Watchers :
          (/\ pc[w] = "select"
           /\ pc'[w] \in {"store", "lock"}
           /\ renewalChans[op[w].acct] = w
           /\ ~chClosed[w]
           /\ chBuf[w] > 0
           /\ CurrentlyCheckedOut(op[w].acct))
          => checkout[op[w].acct].due = 0]_vars

\* No handler operation on account a is in flight: every request has returned
\* and every watcher goroutine is either waiting in its select or gone.
Quiescent(a) ==
    /\ \A p \in Procs : pc[p] = "idle"
    /\ \A w \in Watchers : op[w].acct = a => pc[w] \in {"unborn", "select", "done"}

\* C14: on the leader, whenever no handler operation on an account is in
\* flight, a watcher is registered for the account exactly when the account is
\* checked out, and an available account has no watcher goroutine left.
C14_WatcherTracksLoan ==
    \A a \in Accounts :
        (forLeader /\ Quiescent(a))
        => /\ renewalChans[a] # NoThread <=> CurrentlyCheckedOut(a)
           /\ ~CurrentlyCheckedOut(a)
              => \A w \in Watchers : op[w].acct = a => pc[w] # "select"

\* C18: a CheckIn overwrites the CheckOut record of the account and never
\* removes it: once its storage step is done, and so from the initial check-in
\* on, Status finds a record.
C18_CheckInKeepsRecord ==
    [][\A t \in Threads :
          (/\ op[t].kind \in {"CheckIn", "Watch"}
           /\ Steps(t)
           /\ \/ pc[t] = "del"
              \/ pc[t] = "lock" /\ ~forLeader)
          => CurrentlyCheckedOut(op[t].acct)']_vars

\* C19: a RenewCheckOut that finds the account available returns
\* ErrNotCurrentlyCheckedOut and leaves the stored record, the renewal
\* channels and the watchers' timers as they are.
C19_RenewOfAvailableFails ==
    [][\A p \in Procs :
          (/\ op[p].kind = "RenewCheckOut"
           /\ pc[p] = "lock"
           /\ Steps(p)
           /\ ~CurrentlyCheckedOut(op[p].acct))
          => /\ pc'[p] = "idle"
             /\ res'[p] = "ErrNotCurrentlyCheckedOut"
             /\ checkout' = checkout
             /\ watchVars' = watchVars]_vars

\* On the leader a RenewCheckOut has failed so for an account that was lent
\* and has been checked in by its watcher.
C19_Witness ==
    \E p \in Procs :
        /\ forLeader
        /\ pc[p] = "idle"
        /\ res[p] = "ErrNotCurrentlyCheckedOut"
        /\ nSpawned > 0
        /\ \A a \in Accounts : ~CurrentlyCheckedOut(a)

\* The CheckOuts s and c have the same borrower and are due at the same
\* instant (time.Time's Equal).
SameLoan(s, c) == s.borrower = c.borrower /\ s.due = c.due

C17_ValidatedBeforeDelegation ==
    \A p \in Procs :
        pc[p] \notin {"idle", "panic"}
        => validateInputs(args[p], op[p].acct,
                          op[p].kind \in {"CheckOut", "RenewCheckOut"}) = "nil"

----------------------------------------------------------------------------
\* Properties of NewCheckOutHandler.

\* The CheckOut of account a was past due when the process started.
OverdueAtStartup(a) == startup[a] # Nil /\ startup[a].due = 0

\* C15: when NewCheckOutHandler has returned without error on the leader,
\* every account of every stored set whose CheckOut was past due at startup
\* has been checked in.
C15_OverdueCheckedIn ==
    boot.pc = "returned"
    => \A k \in SetKeys : \A a \in sets[k] :
           OverdueAtStartup(a) => ~CurrentlyCheckedOut(a)

\* C16: NewCheckOutHandler never waits for a loan to become due, and when it
\* has returned, every account of the reserves it went through that is checked
\* out and not yet due has a registered watcher whose timer is set to the
\* stored due time.
C16_BootArmsWatchers ==
    /\ ~(/\ boot.pc = "watch"
         /\ pc[boot.watch] = "select"
         /\ timer[boot.watch] > 0)
    /\ boot.pc = "returned"
       => \A n \in StorageList(reserveStoragePrefix) :
            \A a \in sets[<<reserveStoragePrefix, n>>] :
              (CurrentlyCheckedOut(a) /\ checkout[a].due > 0)
              => /\ renewalChans[a] # NoThread
                 /\ timer[renewalChans[a]] = checkout[a].due

----------------------------------------------------------------------------
\* Properties of the write-ahead log.

C7_EntryCoversRemote ==
    \A a \in Accounts :
        (remote[a] # password[a] /\ remote[a] # InitialPassword)
        => \E e \in Entries : e.acct = a /\ e.pw = remote[a]

\* C8: a pass that runs alone over a log that is not empty, with a healthy
\* client and healthy storage, ends with an empty log and, for every account
\* it replayed, the persisted password equal to the remote password, that of
\* one of the account's entries and different from the password the account
\* had before that rotation.
C8_PassCompletesRotation ==
    [][(/\ pc[periodic] = "retryGet"
        /\ pc'[periodic] = "idle"
        /\ res'[periodic] = "nil"
        /\ retry.alone
        /\ retry.listed # {})
       => /\ \A e \in wal' : e.st # "present"
          /\ \A e \in retry.listed :
                /\ password'[e.acct] = remote'[e.acct]
                /\ \E f \in retry.listed :
                      /\ f.acct = e.acct
                      /\ f.pw = password'[e.acct]
                      /\ f.pw # f.old]_vars

\* After a CheckIn that failed at the remote update, a pass has replayed the
\* entry: the log is empty and the persisted password is the remote one.
C8_Witness ==
    \E a \in Accounts : \E e \in wal :
        /\ res[caller] = "remote error"
        /\ res[periodic] = "nil"
        /\ pc[periodic] = "idle"
        /\ e.st = "replayed"
        /\ Entries = {}
        /\ password[a] = remote[a]
        /\ remote[a] # InitialPassword

----------------------------------------------------------------------------
\* Properties of the library of sets.

\* The sets an account is stored in.
SetsOf(a) ==
    {n \in LibNames : \E l \in library[n] :
        \E i \in DOMAIN l.ServiceAccountNames : l.ServiceAccountNames[i] = a}

\* C21: each service account name is in at most one stored set, also after
\* concurrent creates and updates: whenever no request is inside a path, no
\* account is in two sets.
C21_OneSetPerAccount ==
    (\A p \in Procs : req[p].pc = "idle")
        => \A a \in Members : Cardinality(SetsOf(a)) <= 1

\* C22: an account leaves management only while it is available: no step
\* deletes the CheckOut record or the stored password of an account that is
\* checked out, whatever check-out runs beside the delete or the update.
C22_OnlyAvailableRemoved ==
    [][\A a \in Members :
          (\/ checkOuts[a] # {} /\ checkOuts'[a] = {}
           \/ stored[a] /\ ~stored'[a])
          => ~IsCheckedOut(a)]_vars

\* The accounts whose lock a request goroutine holds, a request goroutine
\* waiting for a lock, and the one holding the lock it waits for.
Locked(p) ==
    req[p].held \cup
        (IF req[p].pc \in {"out", "retrieve", "scan", "named", "namedin"}
         THEN {req[p].todo[req[p].i]} ELSE {})
Waiting(p) == req[p].pc = "lock" /\ req[p].i <= Len(req[p].todo)
Holder(p) == checkOutLocks[LockForKey(req[p].todo[req[p].i])]

\* C23: concurrent requests never deadlock and release every lock they took:
\* no lock is held by a request that has returned, and a request waiting for
\* a lock waits for another request that is not waiting for a lock of the
\* first.
C23_NoRequestBlockedForever ==
    /\ \A l \in DOMAIN checkOutLocks :
          checkOutLocks[l] # NoThread => req[checkOutLocks[l]].pc # "idle"
    /\ \A p \in Procs :
          (Waiting(p) /\ Holder(p) # NoThread)
              => /\ Holder(p) # p
                 /\ ~(Waiting(Holder(p)) /\ Holder(Holder(p)) = p)

\* C24: operations on different accounts never block each other: a request
\* waiting for the lock of an account waits for a request that took the lock
\* for that account, and keeps no other account locked while it waits.
C24_DifferentAccountsIndependent ==
    \A p \in Procs :
        (Waiting(p) /\ Holder(p) # NoThread /\ req[Holder(p)].pc # "idle")
            => /\ req[p].todo[req[p].i] \in Locked(Holder(p))
               /\ Locked(p) = {}

\* The accounts of the set of request p that are checked out and that the
\* caller of p may check in.
Eligible(p) ==
    {a \in Members :
        /\ \E i \in DOMAIN req[p].set.ServiceAccountNames :
               req[p].set.ServiceAccountNames[i] = a
        /\ \E c \in checkOuts[a] :
               /\ ~c.IsAvailable
               /\ canCheckIn(req[p].id, c,
                     req[p].override \/ req[p].set.DisableCheckInEnforcement)}
\* Request p, a check-in without account names that no other request
\* overlaps, returns its response in this step.
UnnamedCheckInReturns(p) ==
    /\ req[p].kind = "check-in" /\ Len(req[p].names) = 0 /\ req[p].alone
    /\ req[p].pc \in {"lock", "in"} /\ req'[p].pc = "idle"
    /\ req'[p].resp # "err"

Enforced(p) == ~req[p].override /\ ~req[p].set.DisableCheckInEnforcement
ChecksIn(p, a) ==
    /\ req[p].kind = "check-in" /\ req[p].pc \in {"in", "namedin"}
    /\ req'[p].pc # req[p].pc
    /\ a \in Locked(p)
    /\ \E c \in checkOuts[a] : ~c.IsAvailable
    /\ checkOuts'[a] = {Available}
Decides(p, a) ==
    /\ req[p].kind = "check-in" /\ req[p].pc \in {"scan", "named"}
    /\ req'[p].pc # req[p].pc
    /\ req[p].todo[req[p].i] = a
    /\ \E c \in checkOuts[a] : ~c.IsAvailable
\* The requester of p is the borrower of a by a non-empty entity ID or a
\* non-empty client token.
IsBorrower(p, a) ==
    \E c \in checkOuts[a] :
        \/ req[p].id.EntityID # "" /\ req[p].id.EntityID = c.BorrowerEntityID
        \/ req[p].id.ClientToken # "" /\ req[p].id.ClientToken = c.BorrowerClientToken

\* C26: under check-in enforcement a set check-in checks an account in only
\* for a requester whose non-empty entity ID or non-empty client token is the
\* borrower's, never for a requester without identity; with enforcement
\* disabled on the set or overridden, it lets every requester check it in.
C26_CheckInEnforcement ==
    [][\A p \in Procs : \A a \in Members :
          /\ (ChecksIn(p, a) /\ Enforced(p))
                => IsBorrower(p, a) /\ req[p].id # NoIdentity
          /\ (Decides(p, a) /\ Enforced(p) /\ ~IsBorrower(p, a))
                => /\ a \notin req'[p].held
                   /\ req'[p].pc = "lock"
                   /\ req[p].pc = "named" => req'[p].cant
          /\ (Decides(p, a) /\ ~Enforced(p))
                => \/ req[p].pc = "scan" /\ a \in req'[p].held
                   \/ req[p].pc = "named" /\ req'[p].pc = "namedin"]_vars
\* A named check-in under enforcement has checked in the account its
\* requester had borrowed.
C26_Witness ==
    \E p \in Procs :
        /\ req[p].kind = "check-in" /\ req[p].pc = "lock" /\ Enforced(p)
        /\ Len(req[p].checkIns) = 1
        /\ checkOuts[req[p].checkIns[1]] = {Available}

\* Request p is a check-out on a set and takes a step, and the members of
\* its set that come before account a in the set's list.
CheckOutSteps(p) ==
    /\ req[p].kind \in {"check-out", "check-out without locks"}
    /\ req'[p].pc # req[p].pc
    /\ req[p].pc # "read"
Before(p, a) ==
    {req[p].set.ServiceAccountNames[j] : j \in
        {i \in DOMAIN req[p].set.ServiceAccountNames :
            \E k \in DOMAIN req[p].set.ServiceAccountNames :
                i < k /\ req[p].set.ServiceAccountNames[k] = a}}

\* C27: a check-out on a set checks out the first account of the set's list
\* that is available and changes no other account; when every account is
\* checked out it checks out nothing and returns the 429 response instead of
\* an error, also when other check-outs on the same set run concurrently.
C27_FirstAvailableOr429 ==
    [][\A p \in Procs : CheckOutSteps(p) =>
          /\ checkOuts' # checkOuts =>
                \E a \in Members :
                   /\ checkOuts' = [checkOuts EXCEPT ![a] = {newCheckOut(req[p].id)}]
                   /\ ~IsCheckedOut(a)
                   /\ \A b \in Before(p, a) : IsCheckedOut(b)
          /\ req'[p].pc = "idle" =>
                \/ req'[p].resp = "creds" /\ Len(req'[p].checkIns) = 1
                \/ /\ req'[p].resp = "429 No service accounts available for check-out."
                   /\ \A i \in DOMAIN req[p].set.ServiceAccountNames :
                         IsCheckedOut(req[p].set.ServiceAccountNames[i])
                   /\ checkOuts' = checkOuts]_vars

\* A set has an account and, if its max_ttl is finite, a ttl within it.
WellFormed(l) ==
    /\ Len(l.ServiceAccountNames) >= 1
    /\ l.MaxTTL > 0 => l.MaxTTL >= l.TTL

\* C28: every stored set has at least one service account and a max_ttl
\* that, when finite, is not less than its ttl; a create or an update of a
\* set that is not so is rejected with an error and stores nothing.
C28_StoredSetsWellFormed ==
    [][/\ \A n \in LibNames : \A l \in library'[n] : WellFormed(l)
       /\ \A p \in Procs :
             (req[p].pc = "store" /\ req'[p].pc = "idle" /\ ~WellFormed(SetToStore(req[p])))
                => /\ library' = library
                   /\ req'[p].resp \in {"at least one service account",
                                         "max_ttl may not be less than ttl"}]_vars
\* An update with a max_ttl below the ttl was rejected and the set is
\* stored as it was, with a finite max_ttl.
C28_Witness ==
    \E p \in Procs :
        /\ req[p].pc = "idle" /\ req[p].kind = "update"
        /\ req[p].resp = "max_ttl may not be less than ttl"
        /\ \E l \in library["s"] : l.MaxTTL > 0 /\ WellFormed(l)

-----------------------------------------------------------------------------
\* Properties of the rotation of the root credential.

\* Request p returns from pathRotateCredentialsUpdate in this step.
RotationReturns(p) == rotation[p].pc # "idle" /\ rotation'[p].pc = "idle"

\* C29: a rotation of the root credential that reports success leaves the
\* stored bind password equal to the directory's; one that could not store
\* the new password leaves the directory with the stored password and
\* returns an error; one whose rollback failed as well returns the error
\* that reports both failures.
C29_StoredAndRemoteConsistent ==
    [][\A p \in Procs : RotationReturns(p) =>
          /\ rotation'[p].resp = "nil" => engineConf' = {rootPassword'}
          /\ rotation'[p].resp = "unable to update password due to storage err"
                => engineConf' = {rootPassword'}
          /\ (rotation[p].pc \in {"select", "done", "attempt"}
                 /\ rotation'[p].rollbackErr # "nil")
                => rotation'[p].resp = "unable to store and unable to return"]_vars

\* Request p takes a step inside rollBackPassword, and the remote update of
\* that step has succeeded.
RollbackSteps(p) ==
    /\ rotation[p].pc \in {"select", "blocked", "done", "attempt"}
    /\ rotation'[p].pc # rotation[p].pc
RollbackSucceeds(p) ==
    /\ rotation[p].pc = "attempt"
    /\ rootPassword' # rootPassword

\* C30: rollBackPassword calls the directory at most 10 times; it returns
\* nil at the first call that succeeds and the error of the 10th call
\* after 10 calls that failed; if its context is cancelled while it waits
\* for the timer before a call, it returns an error and calls the directory
\* no more.
C30_RollBackPassword ==
    [][\A p \in Procs : RollbackSteps(p) =>
          /\ rotation'[p].calls <= 10
          /\ RollbackSucceeds(p) =>
                /\ rotation'[p].pc = "idle" /\ rotation'[p].rollbackErr = "nil"
                /\ rotation'[p].calls = rotation[p].i + 1
                /\ rootPassword' = rotation[p].oldPassword
          /\ rotation'[p].rollbackErr = "nil" => RollbackSucceeds(p)
          /\ rotation'[p].rollbackErr = "err" =>
                /\ rotation'[p].calls = 10 /\ rotation'[p].err = 9
                /\ rotation[p].pc = "attempt" /\ ~RollbackSucceeds(p)
          /\ (rotation[p].pc = "blocked" /\ rotation'[p].done) =>
                rotation'[p].pc = "done"
          /\ rotation[p].pc = "done" =>
                /\ rotation'[p].pc = "idle"
                /\ rotation'[p].rollbackErr = "shutting down"
                /\ rotation'[p].calls = rotation[p].calls
                /\ rootPassword' = rootPassword]_vars
\* One rollBackPassword has returned the error of its 10th call, another
\* was cancelled while it waited after a call that failed.
C30_Witness ==
    \E p, q \in Procs :
        /\ rotation[p].pc = "idle" /\ rotation[p].rollbackErr = "err"
        /\ rotation[p].calls = 10
        /\ rotation[q].pc = "idle" /\ rotation[q].rollbackErr = "shutting down"
        /\ rotation[q].calls >= 1

----------------------------------------------------------------------------
\* The stack under a fair scheduler: time passes, and a goroutine that can
\* take a step of its call or of its select eventually takes one.  Requests
\* arrive when callers make them, under no fairness.
Proceeds(t) ==
    \/ getOrCreateLockStore(t)
    \/ CheckOutGet(t)
    \/ CheckOutPut(t)
    \/ RenewGet(t)
    \/ RenewPut(t)
    \/ RenewRead(t)
    \/ RenewSend(t)
    \/ PasswordHandlerCheckInUpdate(t)
    \/ PasswordHandlerCheckInPut(t)
    \/ PasswordHandlerDelete(t)
    \/ StorageHandlerCheckIn(t)
    \/ FollowerCheckIn(t)
    \/ Status(t)
    \/ stopWatchingRead(t)
    \/ stopWatchingClose(t)
    \/ stopWatchingDelete(t)
    \/ /\ t \in Watchers
       /\ \/ startWatchingRegister(t)
          \/ selectRenewal(t)
          \/ selectClosed(t)
          \/ selectTimer(t)

SpecFair ==
    /\ Init
    /\ [][Next]_vars
    /\ WF_vars(Tick)
    /\ \A t \in Threads : WF_vars(Proceeds(t))

\* A CheckIn of goroutine t fails: h.client.UpdatePassword returned an error.
CheckInFails(t) ==
    /\ forLeader
    /\ pc[t] = "lock"
    /\ op[t].kind \in {"CheckIn", "Watch"}
    /\ pc'[t] \in {"idle", "select", "done"}

\* The watcher is inside its call of w.child.CheckIn.
Retrying(w) == pc[w] \in {"store", "lock", "putpw", "del"}

\* C31: a failed check-in never ends reclamation.  A CheckIn that fails, a
\* caller's or the watcher's own, leaves the CheckOut record, the registered
\* renewal channel and its open state as they were, and the watcher whose
\* attempt failed waits in its select again, for time.Minute; a waiting
\* watcher always comes to try a check-in again or to return; the watcher's
\* check-in that succeeds leaves the account available, and the watcher then
\* returns (unless a goroutine of the process has panicked).
C31_FailedCheckInKeepsWatching ==
    /\ [][\A t \in Threads : CheckInFails(t) =>
            /\ checkout' = checkout
            /\ renewalChans' = renewalChans
            /\ chClosed' = chClosed
            /\ t \in Watchers => pc'[t] = "select" /\ timer'[t] = RetryDelay]_vars
    /\ [][\A w \in Watchers : (pc[w] = "del" /\ pc'[w] = "stopRead") =>
            checkout'[op[w].acct] = Nil]_vars
    /\ \A w \in Watchers :
          /\ (pc[w] = "select") ~> (Retrying(w) \/ pc[w] = "done" \/ Panicked)
          /\ (pc[w] = "stopRead") ~> (pc[w] = "done" \/ Panicked)
\* A caller's CheckIn has failed, the watcher's own attempt at the due time
\* has failed too, and the watcher waits again with the account checked out.
C31_Witness ==
    \E p \in Procs, w \in Watchers, a \in Accounts :
        /\ res[p] = "remote error"
        /\ checkout[a] # Nil /\ checkout[a].due = 0
        /\ renewalChans[a] = w /\ ~chClosed[w] /\ chBuf[w] = Empty
        /\ pc[w] = "select" /\ timer[w] = RetryDelay

----------------------------------------------------------------------------
\* The goroutine is inside a pass of retryFailedPasswordUpdates, which calls
\* neither getOrCreateLock nor the handler stack.
InRetryFailedPasswordUpdates(r) ==
    pc[r] \in {"retryGet", "retryUpdate", "retryPut", "retryDelete"}

\* The goroutine is inside ServiceAccountLocker.CheckOut or CheckIn for the
\* account, between lock.Lock() and the deferred lock.Unlock(); CheckOut is
\* one step of the caller.
UnderAccountLock(t, a) ==
    /\ t = caller
    /\ \/ pc[t] = "idle" /\ res'[t] = "nil" /\ checkout'[a] # Nil
       \/ pc[t] \in {"walUpdate", "walPut", "walDelete", "walChild"} /\ op[t].acct = a
    /\ pc'[periodic] = pc[periodic]

\* C32: every write or delete of an account's CheckOut record or persisted
\* password is made by a goroutine that holds the account's exclusive lock,
\* the reconciliation task's writes included.
C32_WritesUnderAccountLock ==
    [][\A a \in Accounts :
         (checkout'[a] # checkout[a] \/ password'[a] # password[a]) =>
            \E t \in Procs : UnderAccountLock(t, a)]_vars

\* A pass of retryFailedPasswordUpdates returns, with nil or with an error.
PassReturns(r) ==
    /\ InRetryFailedPasswordUpdates(r)
    /\ pc'[r] = "idle"
    /\ res'[r] # "none"

\* C33: one reconciliation pass attempts every entry it listed: when the pass
\* returns, no entry after the one it worked on last is left unattempted, and
\* an entry whose retry failed is still in the log.
C33_PassAttemptsEveryEntry ==
    [][\A r \in Procs : PassReturns(r) =>
          /\ Len(retry.walIDs) <= 1
          /\ res'[r] # "nil" => \A e \in Entries :
                                   e.id = Head(retry.walIDs) => e \in wal']_vars

----------------------------------------------------------------------------
\* C34: in OverdueWatcher.RenewCheckOut, once the wrapped handler's
\* RenewCheckOut has succeeded, a renewal channel is registered for the
\* account: the read of w.renewalChans finds one and no renewal returns the
\* "missing renewal channel" error.
C34_RenewalChannelRegistered ==
    /\ \A t \in Threads : pc[t] = "renewRead" => renewalChans[op[t].acct] # NoThread
    /\ \A p \in Procs : res[p] # "missing renewal channel"

\* C36: each renewal channel is closed at most once and is never sent on
\* after it was closed: no goroutine panics in close(renewalChan) or in
\* renewalChan <- checkOut.Due, under any interleaving of CheckIn, Delete,
\* RenewCheckOut and the watchers' timers.
C36_NoChannelPanic ==
    [][/\ \A t \in Threads : (pc[t] = "stopClose" /\ pc'[t] # pc[t]) => ~chClosed[ch[t]]
       /\ \A t \in Threads : (pc[t] = "renewSend" /\ pc'[t] # pc[t]) => ~chClosed[ch[t]]
       /\ ~Panicked']_vars

----------------------------------------------------------------------------
\* A CheckIn that wrote its entry after entry e has completed its rotation:
\* it removed its own entry after the remote update and the Put.  A removed
\* entry keeps only its id; all entries are of the one account of Accounts.
LaterRotationCompleted(e) ==
    /\ e.acct \in Accounts
    /\ \E f \in wal : f.id > e.id /\ f.st = "deleted"

\* C35: the reconciliation task never replaces an account's current
\* password with an older one: once a later rotation of the account has
\* completed, the replay of an entry left by an earlier failed CheckIn
\* changes neither the remote nor the persisted password.
C35_NoOlderPasswordReplayed ==
    [][\A r \in Procs :
         (/\ pc[r] \in {"retryUpdate", "retryPut"}
          /\ pc'[r] # pc[r]
          /\ LaterRotationCompleted(retry.walEntry)) =>
            /\ remote' = remote
            /\ password' = password]_vars

----------------------------------------------------------------------------
\* C38: set check-out is all-or-nothing: when operationSetCheckOut returns
\* an error after the handler's CheckOut of an account has succeeded (the
\* stored password cannot be retrieved), that account is not left checked out.
C38_CheckOutAllOrNothing ==
    [][\A p \in Procs :
         (/\ req[p].kind = "check-out"
          /\ req[p].pc = "retrieve"
          /\ req'[p].pc = "idle"
          /\ req'[p].resp = "err") =>
            \A c \in checkOuts'[req[p].todo[req[p].i]] : c.IsAvailable]_vars

----------------------------------------------------------------------------
\* A create or an update is rejected by set.Validate().
RejectedByValidate(p) ==
    /\ req[p].kind \in {"create", "update"}
    /\ req[p].pc = "store"
    /\ req'[p].pc = "idle"
    /\ req'[p].resp # "nil"

\* The accounts the request found unmanaged and asked to add, and the
\* accounts of the stored set it asked to remove.
BeingAdded(f) ==
    IF f.kind = "create" THEN f.names
    ELSE IF "service_account_names" \in f.sent
         THEN Difference(f.names, f.set.ServiceAccountNames)
         ELSE << >>
BeingDeleted(f) ==
    IF f.kind = "update" /\ "service_account_names" \in f.sent
    THEN Difference(f.set.ServiceAccountNames, f.names)
    ELSE << >>

\* C39: a set create or update that is rejected leaves the stored set, every
\* CheckOut record and every persisted password as they were before the
\* request: with one administrator at work, an account the request was to
\* add has no record and no password when the rejection is returned, an
\* account it was to remove still has both, and the stored set is unchanged.
C39_RejectedWriteChangesNothing ==
    [][\A p \in Procs : RejectedByValidate(p) =>
          /\ library' = library
          /\ \A i \in DOMAIN BeingAdded(req[p]) :
                /\ checkOuts'[BeingAdded(req[p])[i]] = {}
                /\ ~stored'[BeingAdded(req[p])[i]]
          /\ \A i \in DOMAIN BeingDeleted(req[p]) :
                /\ checkOuts'[BeingDeleted(req[p])[i]] # {}
                /\ stored'[BeingDeleted(req[p])[i]]]_vars

----------------------------------------------------------------------------
\* The Secret p holds was issued for a check-out of another borrower than
\* the one the account is checked out to now.
IssuedForEarlierCheckOut(p) ==
    /\ HoldsSecret(p)
    /\ IsCheckedOut(req[p].checkIns[1])
    /\ newCheckOut(req[p].id) \notin checkOuts[req[p].checkIns[1]]

\* C37: lease operations are bound to the check-out the lease was issued
\* for: after the account was checked in and checked out by a different
\* borrower, revoking the earlier lease does not check in the later
\* borrower's check-out and renewing the earlier lease does not succeed.
C37_LeaseBoundToCheckOut ==
    [][\A p \in Procs :
         (IssuedForEarlierCheckOut(p) /\ req'[p] # req[p]) =>
            /\ checkOuts' = checkOuts
            /\ req'[p].resp # "renewed"]_vars

\* C40: the lease TTL returned by set check-out, for a set whose TTL is
\* finite (> 0), is a finite TTL no longer than the set's, whatever ttl the
\* request carried, 0 and negative values included.
C40_LeaseTTLWithinSetTTL ==
    [][\A p \in Procs :
         (/\ req[p].pc = "retrieve"
          /\ req'[p].resp = "creds"
          /\ req[p].set.TTL > 0) =>
            /\ req'[p].ttl <= req[p].set.TTL
            /\ req'[p].ttl > 0]_vars
====
